---- MODULE Spec2Model ----
(***************************************************************************)
(* The triage worker of the vulnerability database: update passes that     *)
(* mirror a commit of the CVE list repository into the store               *)
(* (internal/worker/update.go) and CreateIssues sweeps that file one issue *)
(* per record in NeedsIssue (worker.go), running against one store.        *)
(***************************************************************************)
EXTENDS Integers, Sequences, FiniteSets, TLC

(***************************************************************************)
(* Bounds of the model.                                                    *)
(***************************************************************************)
\* CVE files in the tree of a commit whose walk is sorted and grouped
MaxWalk == 3
\* events in the ranges of one osv.Affects, and ranges in it
MaxEvents == 3
MaxRanges == 2
\* hours that pass, calls of the HTTP source, and entries in a module file
MaxClock == 3
MaxGets == 2
MaxEntries == 2
\* references of a CVE, and calls of TriageCVE in one behaviour
MaxReferences == 2
MaxTriages == 2
\* entries of a call stack
MaxFrames == 4
\* UpdateCommit calls made in one behaviour of concurrent callers
MaxCalls == 4
\* update passes and CreateIssues sweeps started, plus store errors, crashes
\* and re-executions of a transaction body injected, in one behaviour
MaxOps == 4
\* update.go:142 sets 500; the model scales the limit down so that a directory
\* of two files spans two transactions.
maxTransactionWrites == 1

(***************************************************************************)
(* The repository: its layout and the blobs a commit can hold.             *)
(***************************************************************************)
\* The CVE files of the tree, in the order the tree walk meets them
\* (the layout of testdata/basic.txtar without the known 2020 file).
RepoLayout ==
    << [dirPath |-> "2021/0xxx", year |-> 2021, digits |-> <<0, 0, 0, 1>>],
       [dirPath |-> "2021/0xxx", year |-> 2021, digits |-> <<0, 0, 1, 0>>],
       [dirPath |-> "2021/1xxx", year |-> 2021, digits |-> <<1, 3, 8, 4>>] >>

\* The blobs of the repository, by blob hash: what the JSON decodes to, and
\* the module the reference URLs of the CVE lead to ("" when none does).
BlobObjects ==
    << [valid |-> TRUE, State |-> "PUBLIC", DataVersion |-> "4.0", refModule |-> "golang.org/x/mod"],
       [valid |-> TRUE, State |-> "PUBLIC", DataVersion |-> "4.0", refModule |-> "golang.org/x/net"],
       [valid |-> TRUE, State |-> "PUBLIC", DataVersion |-> "4.0", refModule |-> ""],
       [valid |-> TRUE, State |-> "RESERVED", DataVersion |-> "4.0", refModule |-> ""],
       [valid |-> TRUE, State |-> "PUBLIC", DataVersion |-> "5.0", refModule |-> ""] >>

\* BlobObjects is indexed by the kind of content; the blob of file i with
\* content of kind k has the hash <<i, k>>.
\* The commits: a commit is identified by its hash, here the kind of content of
\* each file of RepoLayout.
Commits ==
    { <<1, 3, 1>>, <<2, 1, 1>>, <<5, 3, 4>> }

\* commit.Committer.When: the commits are made in the order <<1, 3, 1>>,
\* <<2, 1, 1>>, <<5, 3, 4>>, the first file tells the time.
CommitTime(c) == c[1]

\* The sets of CVE IDs the Go vuln DB can hold when a pass starts.
KnownIDSets == { {}, { <<"CVE", 2021, <<0, 0, 0, 1>>>> } }

\* strconv.Atoi of the digits of a file name.
RECURSIVE Atoi(_)
Atoi(ds) ==
    IF Len(ds) = 0 THEN 0
    ELSE 10 * Atoi(SubSeq(ds, 1, Len(ds) - 1)) + ds[Len(ds)]

\* The name of a CVE file: CVE-YEAR-NUMBER.json
Filename(e) == <<"CVE", e.year, e.digits, ".json">>

idFromFilename(name) == <<name[1], name[2], name[3]>>

\* The hash of the tree of directory dir in commit c: it changes exactly when
\* an entry of the directory does.
TreeHash(c, dir) ==
    [kind |-> "tree",
     entries |-> { <<i, c[i]>> : i \in { k \in 1..Len(RepoLayout) : RepoLayout[k].dirPath = dir } }]

NoHash == [kind |-> "", entries |-> {}]
InProgress == [kind |-> "in progress", entries |-> {}]

walkFiles(c) ==
    [ i \in 1..Len(RepoLayout) |->
        [dirPath  |-> RepoLayout[i].dirPath,
         filename |-> Filename(RepoLayout[i]),
         treeHash |-> TreeHash(c, RepoLayout[i].dirPath),
         blobHash |-> <<i, c[i]>>,
         year     |-> RepoLayout[i].year,
         number   |-> Atoi(RepoLayout[i].digits)] ]

\* A less function that compares the years only.
FileLessYearOnly(a, b) == a.year < b.year

FileLess(a, b) ==
    IF a.year # b.year THEN a.year < b.year ELSE a.number < b.number

\* sort.Slice: insertion of each file into the sorted prefix.
RECURSIVE InsertSorted(_, _)
InsertSorted(f, s) ==
    IF Len(s) = 0 THEN <<f>>
    ELSE IF FileLess(f, s[1]) THEN <<f>> \o s
    ELSE <<s[1]>> \o InsertSorted(f, Tail(s))

RECURSIVE SortFiles(_)
SortFiles(s) ==
    IF Len(s) = 0 THEN <<>>
    ELSE InsertSorted(s[Len(s)], SortFiles(SubSeq(s, 1, Len(s) - 1)))

repoCVEFiles(c) == SortFiles(walkFiles(c))

\* A grouping that puts all the files in one run.
GroupAll(files, result, curDir) == IF Len(files) = 0 THEN <<>> ELSE <<files>>

\* groupFilesByDirectory: the runs of consecutive files with one dirPath;
\* err when a directory heads two runs.
RECURSIVE GroupRuns(_, _, _)
GroupRuns(files, result, curDir) ==
    IF Len(files) = 0
    THEN IF Len(curDir) > 0 THEN Append(result, curDir) ELSE result
    ELSE IF Len(curDir) > 0 /\ files[1].dirPath # curDir[1].dirPath
    THEN GroupRuns(Tail(files), Append(result, curDir), <<files[1]>>)
    ELSE GroupRuns(Tail(files), result, Append(curDir, files[1]))

groupFilesByDirectory(files) ==
    LET result == GroupRuns(files, <<>>, <<>>)
        dup == \E i, j \in 1..Len(result) : i < j /\ result[i][1].dirPath = result[j][1].dirPath
    IN  [err |-> dup, groups |-> IF dup THEN <<>> ELSE result]

DirPaths == { RepoLayout[i].dirPath : i \in 1..Len(RepoLayout) }
IDs == { idFromFilename(Filename(RepoLayout[i])) : i \in 1..Len(RepoLayout) }

pathJoin(dir, name) == <<dir, name>>

(***************************************************************************)
(* The store (internal/worker/store): CVE records by ID, directory hashes, *)
(* commit update records, and transactions over the CVE records.           *)
(***************************************************************************)
ZeroTime == "0001-01-01T00:00:00Z"
Now == "now"

\* The order of CVE IDs as strings, which is the order of the store's keys.
RECURSIVE LexLeq(_, _)
LexLeq(a, b) ==
    IF Len(a) = 0 THEN TRUE
    ELSE IF Len(b) = 0 THEN FALSE
    ELSE IF a[1] # b[1] THEN a[1] < b[1]
    ELSE LexLeq(Tail(a), Tail(b))

IDLeq(x, y) == IF x[2] # y[2] THEN x[2] < y[2] ELSE LexLeq(x[3], y[3])

\* tx.GetCVERecords(startID, endID): the records with startID <= ID <= endID.
GetCVERecords(records, startID, endID) ==
    [ id \in { x \in DOMAIN records : IDLeq(startID, x) /\ IDLeq(x, endID) } |-> records[id] ]

\* store.NewCVERecord(cve, path, blobHash)
NewCVERecord(cve, pathname, blobHash) ==
    [ID |-> cve.ID, Path |-> pathname, BlobHash |-> blobHash, CommitHash |-> <<>>,
     CVEState |-> cve.State, TriageState |-> "", TriageStateReason |-> <<>>,
     Module |-> "", CVE |-> <<>>, IssueReference |-> <<>>, IssueCreatedAt |-> ZeroTime]

\* st.ListCVERecordsWithTriageState(ts), in the order of the IDs.
RECURSIVE SeqOfIDs(_)
SeqOfIDs(S) ==
    IF S = {} THEN <<>>
    ELSE LET m == CHOOSE x \in S : \A y \in S : IDLeq(x, y)
         IN  <<m>> \o SeqOfIDs(S \ {m})

ListCVERecordsWithTriageState(records, ts) ==
    LET ids == SeqOfIDs({ id \in DOMAIN records : records[id].TriageState = ts })
    IN  [ k \in 1..Len(ids) |-> records[ids[k]] ]

(***************************************************************************)
(* handleCVE and the body of the transaction of updateBatch.               *)
(***************************************************************************)
\* blobReader and json.Decode: the CVE of file f, err when the blob is not JSON.
DecodeCVE(f) ==
    LET b == BlobObjects[f.blobHash[2]]
    IN  [err |-> ~b.valid, ID |-> idFromFilename(f.filename), State |-> b.State,
         DataVersion |-> b.DataVersion, refModule |-> b.refModule,
         blobHash |-> f.blobHash]

\* The triageFunc of UpdateCommit, TriageCVE: the module a version 4.0 CVE
\* refers to, no result when it refers to none, an error for other versions.
affectedModule(cve) ==
    IF cve.DataVersion = "4.0"
    THEN [err |-> FALSE, found |-> cve.refModule # "", modulePath |-> cve.refModule]
    ELSE [err |-> TRUE, found |-> FALSE, modulePath |-> ""]

NoResult == [err |-> FALSE, found |-> FALSE, modulePath |-> ""]

\* The result variable of handleCVE (nil is found = FALSE).
TriageResult(cve, knownIDs) ==
    IF cve.State = "PUBLIC" /\ cve.ID \notin knownIDs
    THEN affectedModule(cve)
    ELSE NoResult

\* fmt.Sprintf("CVE changed; affected module = %q", mp): mp in double quotes.
ChangedReason(mp) == <<"CVE changed; affected module = ", "\"", mp, "\"">>

\* The record handleCVE creates for a CVE that has none.
NewRecord(f, cve, result, commitHash, knownIDs) ==
    LET cr == [NewCVERecord(cve, pathJoin(f.dirPath, f.filename), f.blobHash)
                 EXCEPT !.CommitHash = <<commitHash>>]
    IN  IF result.found
        THEN [cr EXCEPT !.TriageState = "NeedsIssue",
                        !.Module = result.modulePath,
                        !.CVE = <<cve.blobHash>>]
        ELSE [cr EXCEPT !.TriageState = "NoActionNeeded",
                        !.TriageStateReason =
                            IF cve.ID \in knownIDs THEN <<"already in vuln DB">> ELSE <<>>]

\* ModifiedRecord with the pre-issue cases left out: the triage state of a
\* record in NoActionNeeded or NeedsIssue is never reconsidered.
ModifiedRecordNoReclassify(f, cve, result, old, commitHash) ==
    LET mod == [old EXCEPT !.Path = pathJoin(f.dirPath, f.filename),
                           !.BlobHash = f.blobHash,
                           !.CVEState = cve.State,
                           !.CommitHash = <<commitHash>>]
    IN  IF old.TriageState \in {"IssueCreated", "UpdatedSinceIssueCreation"}
        THEN [mod EXCEPT !.TriageState = "UpdatedSinceIssueCreation",
                         !.TriageStateReason =
                             ChangedReason(IF result.found THEN result.modulePath ELSE "")]
        ELSE mod

\* ModifiedRecord that keeps the reason of a record that is already in
\* UpdatedSinceIssueCreation.
ModifiedRecordStaleReason(f, cve, result, old, commitHash) ==
    LET mod == [old EXCEPT !.Path = pathJoin(f.dirPath, f.filename),
                           !.BlobHash = f.blobHash,
                           !.CVEState = cve.State,
                           !.CommitHash = <<commitHash>>]
    IN  CASE old.TriageState = "NoActionNeeded" ->
               IF result.found
               THEN [mod EXCEPT !.TriageState = "NeedsIssue", !.Module = result.modulePath]
               ELSE mod
          [] old.TriageState = "NeedsIssue" ->
               IF ~result.found
               THEN [mod EXCEPT !.TriageState = "NoActionNeeded", !.Module = "", !.CVE = <<>>]
               ELSE mod
          [] old.TriageState = "IssueCreated" ->
               [mod EXCEPT !.TriageState = "UpdatedSinceIssueCreation",
                           !.TriageStateReason =
                               ChangedReason(IF result.found THEN result.modulePath ELSE "")]
          [] old.TriageState = "UpdatedSinceIssueCreation" -> mod

\* The record handleCVE writes over an existing one.
ModifiedRecord(f, cve, result, old, commitHash) ==
    LET mod == [old EXCEPT !.Path = pathJoin(f.dirPath, f.filename),
                           !.BlobHash = f.blobHash,
                           !.CVEState = cve.State,
                           !.CommitHash = <<commitHash>>]
    IN  CASE old.TriageState = "NoActionNeeded" ->
               IF result.found
               THEN [mod EXCEPT !.TriageState = "NeedsIssue", !.Module = result.modulePath]
               ELSE mod
          [] old.TriageState = "NeedsIssue" ->
               IF ~result.found
               THEN [mod EXCEPT !.TriageState = "NoActionNeeded", !.Module = "", !.CVE = <<>>]
               ELSE mod
          [] old.TriageState \in {"IssueCreated", "UpdatedSinceIssueCreation"} ->
               [mod EXCEPT !.TriageState = "UpdatedSinceIssueCreation",
                           !.TriageStateReason =
                               ChangedReason(IF result.found THEN result.modulePath ELSE "")]

TriageStates == {"NoActionNeeded", "NeedsIssue", "IssueCreated", "UpdatedSinceIssueCreation"}

\* handleCVE(f, old, tx): err, or the record to write and whether it is added.
\* idToRecord[id] is old; records are the records of the store the
\* transaction writes to.
handleCVE(f, idToRecord, records, commitHash, knownIDs) ==
    LET cve == DecodeCVE(f)
        result == TriageResult(cve, knownIDs)
        id == idFromFilename(f.filename)
    IN  IF cve.err \/ result.err THEN [err |-> TRUE]
        ELSE IF id \notin DOMAIN idToRecord
        THEN IF cve.ID \in DOMAIN records
             THEN [err |-> TRUE]   \* CreateCVERecord of an existing ID
             ELSE [err |-> FALSE, added |-> TRUE,
                   cr |-> NewRecord(f, cve, result, commitHash, knownIDs)]
        ELSE IF idToRecord[id].TriageState \notin TriageStates THEN [err |-> TRUE]
        ELSE [err |-> FALSE, added |-> FALSE,
              cr |-> ModifiedRecord(f, cve, result, idToRecord[id], commitHash)]

\* A test of the blob hash that finds every file changed.
AlwaysChanged(idToRecord, id, f) == FALSE

\* update.go:217: the file is the one the record was made from.
NoChange(idToRecord, id, f) ==
    id \in DOMAIN idToRecord /\ idToRecord[id].BlobHash = f.blobHash

\* The loop of the transaction body over the files of the batch, from file k.
RECURSIVE BatchLoop(_, _, _, _, _, _, _)
BatchLoop(batch, k, idToRecord, records, commitHash, knownIDs, acc) ==
    IF k > Len(batch) \/ acc.err THEN acc
    ELSE LET f == batch[k]
             id == idFromFilename(f.filename)
         IN  IF NoChange(idToRecord, id, f)
             THEN BatchLoop(batch, k + 1, idToRecord, records, commitHash, knownIDs, acc)
             ELSE LET h == handleCVE(f, idToRecord, records, commitHash, knownIDs)
                  IN  IF h.err
                      THEN [acc EXCEPT !.err = TRUE]
                      ELSE BatchLoop(batch, k + 1, idToRecord, records, commitHash, knownIDs,
                               [acc EXCEPT !.writes = Append(@, h.cr),
                                           !.numAdds = IF h.added THEN @ + 1 ELSE @,
                                           !.numMods = IF h.added THEN @ ELSE @ + 1])

\* TxBody without the reset of the counters at the start of the body
\* (update.go:199-200): an execution goes on from the counts of the last one.
TxBodyNoReset(batch, records, commitHash, knownIDs, numAdds0, numMods0) ==
    LET startID == idFromFilename(batch[1].filename)
        endID == idFromFilename(batch[Len(batch)].filename)
        idToRecord == GetCVERecords(records, startID, endID)
    IN  BatchLoop(batch, 1, idToRecord, records, commitHash, knownIDs,
                  [err |-> FALSE, writes |-> <<>>, numAdds |-> numAdds0,
                   numMods |-> numMods0])

\* One execution of the function updateBatch passes to RunTransaction, with
\* numAdds0 and numMods0 the values of the captured counters when it starts:
\* err, the records it writes, and the counters when it returns.
TxBody(batch, records, commitHash, knownIDs, numAdds0, numMods0) ==
    LET startID == idFromFilename(batch[1].filename)
        endID == idFromFilename(batch[Len(batch)].filename)
        idToRecord == GetCVERecords(records, startID, endID)
    IN  BatchLoop(batch, 1, idToRecord, records, commitHash, knownIDs,
                  [err |-> FALSE, writes |-> <<>>, numAdds |-> 0, numMods |-> 0])

\* The records of the store after a transaction that wrote writes commits.
ApplyWrites(records, writes) ==
    LET W == { writes[k].ID : k \in 1..Len(writes) }
    IN  [ id \in DOMAIN records \cup W |->
            IF id \in W
            THEN writes[CHOOSE k \in 1..Len(writes) : writes[k].ID = id /\
                           \A j \in 1..Len(writes) : writes[j].ID = id => j <= k]
            ELSE records[id] ]

(***************************************************************************)
(* State.                                                                  *)
(***************************************************************************)
VARIABLES
    cveRecords,     \* store: the CVE records, by ID
    dirHashes,      \* store: the directory hashes, by directory path
    updateRecords,  \* store: the commit update records, oldest first
    up,             \* the updater: its position in update and its locals
    sw,             \* the CreateIssues sweeps: position and locals of each
    issues,         \* issue client: the CVE ID of every issue created, in order
    budget,         \* operations started and faults injected
    gh,             \* history: what the passes have done so far
    uc,             \* concurrent UpdateCommit calls: position and locals of each
    fx,             \* one walk of a tree: the files, their order and their groups
    sv,             \* one call of affectsSemver: its arguments, position and result
    hs,             \* the HTTP source of the client: its cache, the server and the calls
    km,             \* knownToPkgsite: the seenModulePath table and its callers
    cs              \* one call of summarizeCallStack: the stack and the summary

vars == <<cveRecords, dirHashes, updateRecords, up, sw, issues, budget, gh, uc, fx,
          sv, hs, km, cs>>

\* The sweeps that can run at a time; s2 is a sweep that starts while s1 runs.
Sweepers == {"s1", "s2"}
Limits == {0, 1}

ZeroStats == [numProcessed |-> 0, numAdded |-> 0, numModified |-> 0]

NoUpdateRecord ==
    [ID |-> 0, StartedAt |-> ZeroTime, CommitHash |-> <<>>, CommitTime |-> 0, NumTotal |-> 0,
     NumProcessed |-> 0, NumAdded |-> 0, NumModified |-> 0, Error |-> "",
     EndedAt |-> ZeroTime]

IdleUpdater ==
    [pc |-> "idle", commitHash |-> <<>>, knownIDs |-> {}, filesByDir |-> <<>>,
     dirIdx |-> 0, i |-> 0, numAdds |-> 0, numMods |-> 0, stats |-> ZeroStats,
     dirErr |-> "", ur |-> NoUpdateRecord, ret |-> "none"]

IdleSweeper ==
    [pc |-> "idle", needsIssue |-> <<>>, pos |-> 0, numCreated |-> 0, limit |-> 0,
     ref |-> <<>>, submitted |-> 0]

NoTx == [kind |-> "none", writes |-> {}, unchanged |-> {}, retries |-> 0]

\* The callers of UpdateCommit that can run at a time.
Callers == {"u1", "u2"}

IdleCaller == [pc |-> "idle", commitHash |-> <<>>, urID |-> 0, ret |-> "none"]

NoCalls == [proc |-> [p \in Callers |-> IdleCaller], calls |-> 0]

NoWalk ==
    [pc |-> "idle", entries |-> <<>>, files |-> <<>>, err |-> FALSE, groups |-> <<>>,
     dirIdx |-> 0, i |-> 0, seen |-> <<>>]

\* No call of affectsSemver, no HTTP source, no lookup and no call stack yet.
NoSemver ==
    [pc |-> "idle", a |-> <<>>, v |-> [prefix |-> "", num |-> <<>>], i |-> 0,
     semverRangePresent |-> FALSE, ret |-> FALSE, checked |-> <<>>]
NoSource == [pc |-> "idle"]
NoPkgsite == [pc |-> "idle"]
NoStack == [pc |-> "idle"]

Init ==
    /\ cveRecords = <<>>
    /\ dirHashes = [d \in DirPaths |-> NoHash]
    /\ updateRecords = <<>>
    /\ up = IdleUpdater
    /\ sw = [s \in Sweepers |-> IdleSweeper]
    /\ issues = <<>>
    /\ budget = [ops |-> 0, faults |-> 0]
    /\ gh = [created |-> 0, modified |-> 0, committed |-> 0,
             txs |-> [d \in DirPaths |-> 0],
             prevCommit |-> <<>>, prevOK |-> {}, curOK |-> {},
             interrupted |-> {}, retries |-> 0, lastTx |-> NoTx]
    /\ uc = NoCalls
    /\ fx = NoWalk
    /\ sv = NoSemver
    /\ hs = NoSource
    /\ km = NoPkgsite
    /\ cs = NoStack

\* The operations started and the faults injected so far.
Used == budget.ops + budget.faults

\* A store error, an issue client error or a crash is injected.
Fault == /\ Used < MaxOps
         /\ budget' = [budget EXCEPT !.faults = @ + 1]

\* st.SetCommitUpdateRecord(ur)
SetCommitUpdateRecord(urs, ur) == [urs EXCEPT ![ur.ID] = ur]

\* update returns r: the locals are gone, ur and the commit are kept for the caller.
Returned(r, ur) ==
    [IdleUpdater EXCEPT !.ret = r, !.ur = ur, !.commitHash = up.commitHash]

DirFiles == up.filesByDir[up.dirIdx]
DirPath == DirFiles[1].dirPath
DirHash == DirFiles[1].treeHash

Min(a, b) == IF a < b THEN a ELSE b
\* dirFiles[i:j] of the batch loop of updateDirectory
Batch == SubSeq(DirFiles, up.i + 1, Min(up.i + maxTransactionWrites, Len(DirFiles)))

(***************************************************************************)
(* UpdateCommit and checkUpdate                                            *)
(***************************************************************************)
\* st.ListCommitUpdateRecords(n): the n latest records, latest first.
ListCommitUpdateRecords(urs, n) ==
    [ k \in 1..Min(n, Len(urs)) |-> urs[Len(urs) + 1 - k] ]

\* checkUpdate without the test of the error of the latest update.
checkUpdateIgnoreError(urs, c) ==
    LET l == ListCommitUpdateRecords(urs, 1)
    IN  IF Len(l) = 0 THEN "nil"
        ELSE IF l[1].EndedAt = ZeroTime THEN "CheckUpdateError"
        ELSE IF CommitTime(c) < l[1].CommitTime THEN "CheckUpdateError"
        ELSE "nil"

\* checkUpdate without the comparison of the commit times.
checkUpdateIgnoreTime(urs, c) ==
    LET l == ListCommitUpdateRecords(urs, 1)
    IN  IF Len(l) = 0 THEN "nil"
        ELSE IF l[1].EndedAt = ZeroTime THEN "CheckUpdateError"
        ELSE IF l[1].Error # "" THEN "CheckUpdateError"
        ELSE "nil"

\* checkUpdate (worker.go:59-91): what it returns for commit c when the
\* store holds the commit update records urs and answers without error.
checkUpdate(urs, c) ==
    LET l == ListCommitUpdateRecords(urs, 1)
    IN  IF Len(l) = 0 THEN "nil"
        ELSE IF l[1].EndedAt = ZeroTime THEN "CheckUpdateError"
        ELSE IF l[1].Error # "" THEN "CheckUpdateError"
        ELSE IF CommitTime(c) < l[1].CommitTime THEN "CheckUpdateError"
        ELSE "nil"

\* UpdateCommit without force, rejected by checkUpdate (worker.go:40-44).
UpdateCommitRejected(c) ==
    /\ up.pc = "idle"
    /\ Used < MaxOps
    /\ checkUpdate(updateRecords, c) # "nil"
    /\ up' = [up EXCEPT !.ret = checkUpdate(updateRecords, c)]
    /\ budget' = [budget EXCEPT !.ops = @ + 1]
    /\ UNCHANGED <<uc, fx, sv, hs, km, cs, cveRecords, dirHashes, updateRecords, sw, issues, gh>>

(***************************************************************************)
(* updater.update                                                          *)
(***************************************************************************)
\* UpdateCommit, with force or accepted by checkUpdate (worker.go:32-52), and
\* update up to the creation of the commit update record (update.go:89-118).
StartUpdate(c, known, force) ==
    /\ up.pc = "idle"
    /\ Used < MaxOps
    /\ force \/ checkUpdate(updateRecords, c) = "nil"
    /\ LET files == repoCVEFiles(c)
           g == groupFilesByDirectory(files)
           ur == [NoUpdateRecord EXCEPT !.ID = Len(updateRecords) + 1,
                                        !.StartedAt = Now,
                                        !.CommitHash = c,
                                        !.CommitTime = CommitTime(c),
                                        !.NumTotal = Len(files)]
       IN  IF g.err
           THEN /\ up' = [IdleUpdater EXCEPT !.ret = "err", !.commitHash = c]
                /\ UNCHANGED updateRecords
           ELSE /\ updateRecords' = Append(updateRecords, ur)
                /\ up' = [IdleUpdater EXCEPT
                              !.pc = IF Len(g.groups) = 0 THEN "finish" ELSE "updateDirectory",
                              !.commitHash = c, !.knownIDs = known,
                              !.filesByDir = g.groups, !.dirIdx = 1, !.ur = ur]
    /\ budget' = [budget EXCEPT !.ops = @ + 1]
    /\ gh' = [gh EXCEPT !.created = 0, !.modified = 0, !.committed = 0,
                        !.txs = [d \in DirPaths |-> 0],
                        !.prevCommit = IF up.commitHash = <<>> THEN <<>> ELSE <<up.commitHash>>,
                        !.prevOK = gh.curOK, !.curOK = {}, !.lastTx = NoTx]
    /\ UNCHANGED <<uc, fx, sv, hs, km, cs, cveRecords, dirHashes, sw, issues>>

\* A test of the stored hash that never lets updateDirectory skip.
NeverSkipDirectory(dirHash, dbHash) == FALSE

\* update.go:155: the directory was fully processed with this tree hash.
SkipDirectory(dirHash, dbHash) == dirHash = dbHash

\* updateDirectory without the write of the sentinel.
KeepStoredHash(hashes, dirPath) == hashes

\* update.go:160: a hash that can't match, until the directory is processed.
MarkInProgress(hashes, dirPath) == [hashes EXCEPT ![dirPath] = InProgress]

\* The head of updateDirectory (update.go:145-162): skip the directory when
\* the stored hash is the tree hash, else mark it in progress.
UpdateDirectoryBegin ==
    /\ up.pc = "updateDirectory"
    /\ IF SkipDirectory(DirHash, dirHashes[DirPath])
       THEN /\ up' = [up EXCEPT !.pc = "directoryDone", !.stats = ZeroStats, !.dirErr = ""]
            /\ UNCHANGED dirHashes
       ELSE /\ dirHashes' = MarkInProgress(dirHashes, DirPath)
            /\ up' = [up EXCEPT !.pc = "updateBatch", !.i = 0, !.stats = ZeroStats,
                                !.numAdds = 0, !.numMods = 0, !.dirErr = ""]
    /\ UNCHANGED <<uc, fx, sv, hs, km, cs, cveRecords, updateRecords, sw, issues, budget, gh>>

\* GetDirectoryHash or the first SetDirectoryHash returns an error.
UpdateDirectoryBeginError ==
    /\ up.pc = "updateDirectory"
    /\ Fault
    /\ \E op \in {"GetDirectoryHash", "SetDirectoryHash"} :
          /\ op = "SetDirectoryHash" => ~SkipDirectory(DirHash, dirHashes[DirPath])
          /\ up' = [up EXCEPT !.pc = "directoryDone", !.stats = ZeroStats, !.dirErr = op]
    /\ UNCHANGED <<uc, fx, sv, hs, km, cs, cveRecords, dirHashes, updateRecords, sw, issues, gh>>

\* The store runs the body of the transaction of updateBatch and does not
\* commit it: it will run the body again.
RunTransactionRetry ==
    /\ up.pc = "updateBatch"
    /\ Used < MaxOps
    /\ budget' = [budget EXCEPT !.ops = @ + 1]
    /\ LET body == TxBody(Batch, cveRecords, up.commitHash, up.knownIDs, up.numAdds, up.numMods)
       IN  /\ ~body.err
           /\ up' = [up EXCEPT !.numAdds = body.numAdds, !.numMods = body.numMods]
    /\ gh' = [gh EXCEPT !.retries = @ + 1]
    /\ UNCHANGED <<uc, fx, sv, hs, km, cs, cveRecords, dirHashes, updateRecords, sw, issues>>

\* What a committed transaction of updateBatch did to the records of its batch.
TxWrites(batch, before, after, knownIDs) ==
    { [id |-> idFromFilename(batch[k].filename),
       from |-> IF idFromFilename(batch[k].filename) \in DOMAIN before
                THEN before[idFromFilename(batch[k].filename)].TriageState ELSE "",
       to |-> after[idFromFilename(batch[k].filename)].TriageState,
       found |-> TriageResult(DecodeCVE(batch[k]), knownIDs).found] :
      k \in { j \in 1..Len(batch) :
                 \/ idFromFilename(batch[j].filename) \notin DOMAIN before
                 \/ before[idFromFilename(batch[j].filename)] #
                        after[idFromFilename(batch[j].filename)] } }

TxUnchanged(batch, before, after) ==
    { idFromFilename(batch[k].filename) :
      k \in { j \in 1..Len(batch) :
                 /\ idFromFilename(batch[j].filename) \in DOMAIN before
                 /\ before[idFromFilename(batch[j].filename)] =
                        after[idFromFilename(batch[j].filename)] } }

\* The store runs the body and commits it, or the body returns an error;
\* updateBatch returns and updateDirectory goes on (update.go:169-183).
RunTransactionCommit ==
    /\ up.pc = "updateBatch"
    /\ LET body == TxBody(Batch, cveRecords, up.commitHash, up.knownIDs, up.numAdds, up.numMods)
           after == ApplyWrites(cveRecords, body.writes)
           j == Min(up.i + maxTransactionWrites, Len(DirFiles))
       IN  IF body.err
           THEN /\ up' = [up EXCEPT !.pc = "directoryDone", !.stats = ZeroStats,
                                    !.numAdds = 0, !.numMods = 0, !.dirErr = "updateBatch"]
                /\ gh' = [gh EXCEPT !.txs[DirPath] = @ + 1, !.retries = 0,
                                    !.interrupted = @ \cup {DirPath}]
                /\ UNCHANGED cveRecords
           ELSE /\ cveRecords' = after
                /\ up' = [up EXCEPT
                              !.pc = IF j < Len(DirFiles) THEN "updateBatch" ELSE "setDirectoryHash",
                              !.i = up.i + maxTransactionWrites,
                              !.stats = [numProcessed |-> @.numProcessed + (j - up.i),
                                         numAdded |-> @.numAdded + body.numAdds,
                                         numModified |-> @.numModified + body.numMods],
                              !.numAdds = 0, !.numMods = 0]
                /\ gh' = [gh EXCEPT
                              !.txs[DirPath] = @ + 1, !.retries = 0,
                              !.created = @ + Cardinality(DOMAIN after \ DOMAIN cveRecords),
                              !.modified = @ + Cardinality({ id \in DOMAIN cveRecords :
                                                              after[id] # cveRecords[id] }),
                              !.committed = @ + (j - up.i),
                              !.lastTx = [kind |-> "update",
                                          writes |-> TxWrites(Batch, cveRecords, after, up.knownIDs),
                                          unchanged |-> TxUnchanged(Batch, cveRecords, after),
                                          retries |-> gh.retries]]
    /\ UNCHANGED <<uc, fx, sv, hs, km, cs, dirHashes, updateRecords, sw, issues, budget>>

\* RunTransaction returns an error of the store.
RunTransactionError ==
    /\ up.pc = "updateBatch"
    /\ Fault
    /\ up' = [up EXCEPT !.pc = "directoryDone", !.stats = ZeroStats,
                        !.numAdds = 0, !.numMods = 0, !.dirErr = "RunTransaction"]
    /\ gh' = [gh EXCEPT !.txs[DirPath] = @ + 1, !.retries = 0,
                        !.interrupted = @ \cup {DirPath}]
    /\ UNCHANGED <<uc, fx, sv, hs, km, cs, cveRecords, dirHashes, updateRecords, sw, issues>>

\* The end of updateDirectory (update.go:186-189): remember the tree hash.
SetDirectoryHash ==
    /\ up.pc = "setDirectoryHash"
    /\ dirHashes' = [dirHashes EXCEPT ![DirPath] = DirHash]
    /\ up' = [up EXCEPT !.pc = "directoryDone", !.dirErr = ""]
    /\ gh' = [gh EXCEPT !.interrupted = @ \ {DirPath}]
    /\ UNCHANGED <<uc, fx, sv, hs, km, cs, cveRecords, updateRecords, sw, issues, budget>>

SetDirectoryHashError ==
    /\ up.pc = "setDirectoryHash"
    /\ Fault
    /\ up' = [up EXCEPT !.pc = "directoryDone", !.stats = ZeroStats,
                        !.dirErr = "SetDirectoryHash"]
    /\ gh' = [gh EXCEPT !.interrupted = @ \cup {DirPath}]
    /\ UNCHANGED <<uc, fx, sv, hs, km, cs, cveRecords, dirHashes, updateRecords, sw, issues>>

\* ur after update has recorded the error of the directory (update.go:123-124).
WithError(ur, dirErr) == IF dirErr # "" THEN [ur EXCEPT !.Error = dirErr] ELSE ur

\* ur after update has added the stats of the directory (update.go:129-131).
WithStats(ur, stats) ==
    [ur EXCEPT !.NumProcessed = @ + stats.numProcessed,
               !.NumAdded = @ + stats.numAdded,
               !.NumModified = @ + stats.numModified]

\* The pc of update after the directory: update.go:123-128 does not return
\* when updateDirectory failed, the loop goes on with the next directory.
AfterDirectory(dirErr, dirIdx, n) ==
    IF dirIdx < n THEN "updateDirectory" ELSE "finish"

\* The body of the loop of update after updateDirectory returned
\* (update.go:122-134).
UpdateLoop ==
    /\ up.pc = "directoryDone"
    /\ LET ur == WithStats(WithError(up.ur, up.dirErr), up.stats)
           next == AfterDirectory(up.dirErr, up.dirIdx, Len(up.filesByDir))
       IN  /\ updateRecords' = SetCommitUpdateRecord(updateRecords, ur)
           /\ up' = [up EXCEPT !.pc = next, !.ur = ur, !.dirIdx = @ + 1,
                               !.stats = ZeroStats, !.dirErr = ""]
    /\ gh' = [gh EXCEPT !.curOK = IF up.dirErr = "" THEN @ \cup {DirPath} ELSE @,
                        !.lastTx = NoTx]
    /\ UNCHANGED <<uc, fx, sv, hs, km, cs, cveRecords, dirHashes, sw, issues, budget>>

\* SetCommitUpdateRecord returns an error in the loop: the one that records
\* the error of the directory (first), or the one that records the stats.
UpdateLoopError ==
    /\ up.pc = "directoryDone"
    /\ Fault
    /\ \E first \in BOOLEAN :
          /\ first => up.dirErr # ""
          /\ LET ur1 == WithError(up.ur, up.dirErr)
             IN  IF first
                 THEN /\ UNCHANGED updateRecords
                      /\ up' = Returned("err", ur1)
                 ELSE /\ updateRecords' = SetCommitUpdateRecord(updateRecords, ur1)
                      /\ up' = Returned("err", WithStats(ur1, up.stats))
    /\ UNCHANGED <<uc, fx, sv, hs, km, cs, cveRecords, dirHashes, sw, issues, gh>>

\* The end of update (update.go:136-137).
Finish ==
    /\ up.pc = "finish"
    /\ LET ur == [up.ur EXCEPT !.EndedAt = Now]
       IN  /\ updateRecords' = SetCommitUpdateRecord(updateRecords, ur)
           /\ up' = Returned("nil", ur)
    /\ UNCHANGED <<uc, fx, sv, hs, km, cs, cveRecords, dirHashes, sw, issues, budget, gh>>

FinishError ==
    /\ up.pc = "finish"
    /\ Fault
    /\ up' = Returned("err", [up.ur EXCEPT !.EndedAt = Now])
    /\ UNCHANGED <<uc, fx, sv, hs, km, cs, cveRecords, dirHashes, updateRecords, sw, issues, gh>>

\* The process that runs update crashes or is cancelled.
Crash ==
    /\ up.pc # "idle"
    /\ Fault
    /\ up' = Returned("crashed", up.ur)
    /\ gh' = [gh EXCEPT !.interrupted =
                  IF up.pc \in {"updateBatch", "setDirectoryHash"} THEN @ \cup {DirPath} ELSE @,
                        !.retries = 0, !.lastTx = NoTx]
    /\ UNCHANGED <<uc, fx, sv, hs, km, cs, cveRecords, dirHashes, updateRecords, sw, issues>>

(***************************************************************************)
(* CreateIssues                                                            *)
(***************************************************************************)
\* ic.Reference(num): the URL of issue num.
Reference(num) == <<num>>

\* A test of the limit that never ends the sweep.
NoLimit(limit, numCreated) == FALSE

\* worker.go:156: the sweep has created the issues it was asked for.
LimitReached(limit, numCreated) == limit > 0 /\ numCreated >= limit

\* CreateIssues up to its loop (worker.go:146-154).
CreateIssuesStart(s, limit) ==
    /\ sw[s].pc = "idle"
    /\ s = "s2" => sw["s1"].pc # "idle"
    /\ Used < MaxOps
    /\ sw' = [sw EXCEPT ![s] = [IdleSweeper EXCEPT
                  !.pc = "loop",
                  !.needsIssue = ListCVERecordsWithTriageState(cveRecords, "NeedsIssue"),
                  !.pos = 1, !.limit = limit]]
    /\ budget' = [budget EXCEPT !.ops = @ + 1]
    /\ UNCHANGED <<uc, fx, sv, hs, km, cs, cveRecords, dirHashes, updateRecords, up, issues, gh>>

\* The loop is over, or the limit is reached: CreateIssues returns nil.
CreateIssuesReturn(s) ==
    /\ sw[s].pc = "loop"
    /\ \/ sw[s].pos > Len(sw[s].needsIssue)
       \/ LimitReached(sw[s].limit, sw[s].numCreated)
    /\ sw' = [sw EXCEPT ![s] = IdleSweeper]
    /\ UNCHANGED <<uc, fx, sv, hs, km, cs, cveRecords, dirHashes, updateRecords, up, issues, budget, gh>>

\* One iteration of the loop up to ic.CreateIssue (worker.go:155-186).
CreateIssue(s) ==
    /\ sw[s].pc = "loop"
    /\ sw[s].pos <= Len(sw[s].needsIssue)
    /\ ~LimitReached(sw[s].limit, sw[s].numCreated)
    /\ LET r == sw[s].needsIssue[sw[s].pos]
       IN  IF r.IssueReference # <<>> \/ r.IssueCreatedAt # ZeroTime
           THEN /\ sw' = [sw EXCEPT ![s].pos = @ + 1]
                /\ UNCHANGED issues
           ELSE /\ issues' = Append(issues, r.ID)
                /\ sw' = [sw EXCEPT ![s].pc = "created",
                                    ![s].ref = Reference(Len(issues) + 1),
                                    ![s].submitted = @ + 1]
    /\ UNCHANGED <<uc, fx, sv, hs, km, cs, cveRecords, dirHashes, updateRecords, up, budget, gh>>

\* ic.CreateIssue returns an error.
CreateIssueError(s) ==
    /\ sw[s].pc = "loop"
    /\ sw[s].pos <= Len(sw[s].needsIssue)
    /\ ~LimitReached(sw[s].limit, sw[s].numCreated)
    /\ Fault
    /\ sw' = [sw EXCEPT ![s] = IdleSweeper]
    /\ UNCHANGED <<uc, fx, sv, hs, km, cs, cveRecords, dirHashes, updateRecords, up, issues, gh>>

\* IssueCreatedRecord without the assignment of IssueReference.
IssueCreatedRecordNoReference(r, ref) ==
    [r EXCEPT !.TriageState = "IssueCreated", !.IssueCreatedAt = Now]

\* The record the transaction of CreateIssues writes (worker.go:194-197).
IssueCreatedRecord(r, ref) ==
    [r EXCEPT !.TriageState = "IssueCreated", !.IssueReference = ref,
              !.IssueCreatedAt = Now]

\* The transaction that records the issue (worker.go:189-203).
RecordIssue(s) ==
    /\ sw[s].pc = "created"
    /\ LET id == sw[s].needsIssue[sw[s].pos].ID
           rs == GetCVERecords(cveRecords, id, id)
       IN  /\ id \in DOMAIN rs
           /\ cveRecords' = ApplyWrites(cveRecords, <<IssueCreatedRecord(rs[id], sw[s].ref)>>)
           /\ UNCHANGED gh
    /\ sw' = [sw EXCEPT ![s].pc = "loop", ![s].numCreated = @ + 1, ![s].pos = @ + 1,
                        ![s].ref = <<>>]
    /\ UNCHANGED <<uc, fx, sv, hs, km, cs, dirHashes, updateRecords, up, issues, budget>>

\* RunTransaction returns an error of the store: CreateIssues returns it.
RecordIssueError(s) ==
    /\ sw[s].pc = "created"
    /\ Fault
    /\ sw' = [sw EXCEPT ![s] = IdleSweeper]
    /\ UNCHANGED <<uc, fx, sv, hs, km, cs, cveRecords, dirHashes, updateRecords, up, issues, gh>>

(***************************************************************************)
(* The system: one updater and the sweeps, interleaved.                    *)
(***************************************************************************)
Next ==
    \/ \E c \in Commits : UpdateCommitRejected(c)
    \/ \E c \in Commits, known \in KnownIDSets, force \in BOOLEAN : StartUpdate(c, known, force)
    \/ UpdateDirectoryBegin
    \/ UpdateDirectoryBeginError
    \/ RunTransactionRetry
    \/ RunTransactionCommit
    \/ RunTransactionError
    \/ SetDirectoryHash
    \/ SetDirectoryHashError
    \/ UpdateLoop
    \/ UpdateLoopError
    \/ Finish
    \/ FinishError
    \/ Crash
    \/ \E s \in Sweepers, limit \in Limits : CreateIssuesStart(s, limit)
    \/ \E s \in Sweepers : CreateIssuesReturn(s)
    \/ \E s \in Sweepers : CreateIssue(s)
    \/ \E s \in Sweepers : CreateIssueError(s)
    \/ \E s \in Sweepers : RecordIssue(s)
    \/ \E s \in Sweepers : RecordIssueError(s)

Spec == Init /\ [][Next]_vars

(***************************************************************************)
(* Concurrent calls of UpdateCommit without force on one store: each call  *)
(* runs checkUpdate, then update creates the commit update record, runs    *)
(* and sets EndedAt.  The work of update on the CVE records is left out.   *)
(***************************************************************************)
OtherVars == <<cveRecords, dirHashes, up, sw, issues, budget, gh, fx, sv, hs, km, cs>>

\* UpdateCommit(commitHash, force = false) is called (worker.go:32-39).
UpdateCommitCall(p, c) ==
    /\ uc.proc[p].pc = "idle"
    /\ uc.calls < MaxCalls
    /\ uc' = [uc EXCEPT !.proc[p] = [IdleCaller EXCEPT !.pc = "checkUpdate", !.commitHash = c],
                        !.calls = @ + 1]
    /\ UNCHANGED <<updateRecords, OtherVars>>

\* checkUpdate reads the latest commit update record (worker.go:40-44).
UpdateCommitCheck(p) ==
    /\ uc.proc[p].pc = "checkUpdate"
    /\ LET r == checkUpdate(updateRecords, uc.proc[p].commitHash)
       IN  uc' = [uc EXCEPT !.proc[p] =
                      IF r = "nil" THEN [@ EXCEPT !.pc = "update"]
                      ELSE [IdleCaller EXCEPT !.ret = r]]
    /\ UNCHANGED <<updateRecords, OtherVars>>

\* update creates its commit update record (update.go:109-118).
CreateCommitUpdateRecord(p) ==
    /\ uc.proc[p].pc = "update"
    /\ updateRecords' = Append(updateRecords,
            [NoUpdateRecord EXCEPT !.ID = Len(updateRecords) + 1,
                                   !.StartedAt = Now,
                                   !.CommitHash = uc.proc[p].commitHash,
                                   !.CommitTime = CommitTime(uc.proc[p].commitHash)])
    /\ uc' = [uc EXCEPT !.proc[p].pc = "running", !.proc[p].urID = Len(updateRecords) + 1]
    /\ UNCHANGED OtherVars

\* update sets EndedAt and returns (update.go:136-137); dirErr is the error
\* of a directory that the loop has stored in the record, "" when none failed.
EndUpdate(p, dirErr) ==
    /\ uc.proc[p].pc = "running"
    /\ updateRecords' = [updateRecords EXCEPT ![uc.proc[p].urID] =
                             [@ EXCEPT !.Error = dirErr, !.EndedAt = Now]]
    /\ uc' = [uc EXCEPT !.proc[p] = [IdleCaller EXCEPT !.ret = "nil"]]
    /\ UNCHANGED OtherVars

\* update returns early on an error of the store, or its process dies: the
\* record keeps a zero EndedAt.
AbortUpdate(p) ==
    /\ uc.proc[p].pc = "running"
    /\ uc' = [uc EXCEPT !.proc[p] = [IdleCaller EXCEPT !.ret = "err"]]
    /\ UNCHANGED <<updateRecords, OtherVars>>

ConcurrentNext ==
    \/ \E p \in Callers, c \in Commits : UpdateCommitCall(p, c)
    \/ \E p \in Callers : UpdateCommitCheck(p)
    \/ \E p \in Callers : CreateCommitUpdateRecord(p)
    \/ \E p \in Callers, dirErr \in {"", "updateBatch"} : EndUpdate(p, dirErr)
    \/ \E p \in Callers : AbortUpdate(p)

ConcurrentSpec == Init /\ [][ConcurrentNext]_vars

(***************************************************************************)
(* The files of one commit: the tree walk, the sort of repoCVEFiles, the   *)
(* grouping by directory, and the order in which the batches of update     *)
(* meet the files.  The store is left out.                                 *)
(***************************************************************************)
\* The CVE files a tree can hold: CVE-2014-10001 and CVE-2014-100009 are the
\* pair that the order of the IDs as strings puts the other way round.
TreeEntries ==
    { [dirPath |-> "a", year |-> 2014, digits |-> <<1, 0, 0, 0, 1>>],
      [dirPath |-> "a", year |-> 2014, digits |-> <<1, 0, 0, 0, 2>>],
      [dirPath |-> "b", year |-> 2014, digits |-> <<1, 0, 0, 0, 0, 9>>],
      [dirPath |-> "a", year |-> 2014, digits |-> <<1, 0, 0, 0, 1, 0>>],
      [dirPath |-> "b", year |-> 2015, digits |-> <<0, 0, 0, 7>>] }

\* The orders in which walkFiles can meet the files of a tree: each file
\* once, the files of a directory one after the other.
TreeWalks ==
    { w \in UNION { [1..n -> TreeEntries] : n \in 0..MaxWalk } :
        /\ \A i, j \in 1..Len(w) : w[i] = w[j] => i = j
        /\ \A i, j, k \in 1..Len(w) :
              (i < k /\ k < j /\ w[i].dirPath = w[j].dirPath) => w[k].dirPath = w[i].dirPath }

\* walkFiles over the entries of a tree (update.go:364-396).
walkEntries(w) ==
    [ i \in 1..Len(w) |->
        [dirPath  |-> w[i].dirPath,
         filename |-> Filename(w[i]),
         treeHash |-> [kind |-> "tree", entries |-> { j \in 1..Len(w) : w[j].dirPath = w[i].dirPath }],
         blobHash |-> <<i, 1>>,
         year     |-> w[i].year,
         number   |-> Atoi(w[i].digits)] ]

FilesVars == <<cveRecords, dirHashes, updateRecords, up, sw, issues, budget, gh, uc,
               sv, hs, km, cs>>

FilesInit ==
    /\ cveRecords = <<>>
    /\ dirHashes = [d \in DirPaths |-> NoHash]
    /\ updateRecords = <<>>
    /\ up = IdleUpdater
    /\ sw = [s \in Sweepers |-> IdleSweeper]
    /\ issues = <<>>
    /\ budget = [ops |-> 0, faults |-> 0]
    /\ gh = [created |-> 0, modified |-> 0, committed |-> 0,
             txs |-> [d \in DirPaths |-> 0],
             prevCommit |-> <<>>, prevOK |-> {}, curOK |-> {},
             interrupted |-> {}, retries |-> 0, lastTx |-> NoTx]
    /\ uc = NoCalls
    /\ sv = NoSemver
    /\ hs = NoSource
    /\ km = NoPkgsite
    /\ cs = NoStack
    /\ \E w \in TreeWalks : fx = [NoWalk EXCEPT !.pc = "repoCVEFiles", !.entries = w]

\* update calls repoCVEFiles (update.go:98, 341-361): walk, then sort.
SortWalk ==
    /\ fx.pc = "repoCVEFiles"
    /\ fx' = [fx EXCEPT !.pc = "groupFilesByDirectory",
                        !.files = SortFiles(walkEntries(fx.entries))]
    /\ UNCHANGED FilesVars

\* update calls groupFilesByDirectory (update.go:104-107).
GroupFiles ==
    /\ fx.pc = "groupFilesByDirectory"
    /\ LET g == groupFilesByDirectory(fx.files)
       IN  fx' = [fx EXCEPT !.pc = IF g.err \/ Len(g.groups) = 0 THEN "done" ELSE "updateBatch",
                           !.err = g.err, !.groups = g.groups, !.dirIdx = 1, !.i = 0]
    /\ UNCHANGED FilesVars

\* The next batch of the loops of update and updateDirectory
\* (update.go:120-122, 169-174) is given to a transaction.
SeeBatch ==
    /\ fx.pc = "updateBatch"
    /\ LET dirFiles == fx.groups[fx.dirIdx]
           j == Min(fx.i + maxTransactionWrites, Len(dirFiles))
           lastOfDir == j >= Len(dirFiles)
       IN  fx' = [fx EXCEPT
                     !.seen = @ \o SubSeq(dirFiles, fx.i + 1, j),
                     !.i = IF lastOfDir THEN 0 ELSE fx.i + maxTransactionWrites,
                     !.dirIdx = IF lastOfDir THEN @ + 1 ELSE @,
                     !.pc = IF lastOfDir /\ fx.dirIdx = Len(fx.groups) THEN "done" ELSE @]
    /\ UNCHANGED FilesVars

FilesNext ==
    \/ SortWalk
    \/ GroupFiles
    \/ SeeBatch

FilesSpec == FilesInit /\ [][FilesNext]_vars

(***************************************************************************)
(* The range read of updateBatch: passes over the commits of one tree, in  *)
(* batches of up to MaxBatchFiles files, on a store that keeps its CVE     *)
(* records in the order of their IDs as strings.  The directory hashes,    *)
(* the commit update record and the errors of the store are left out.      *)
(***************************************************************************)
\* maxTransactionWrites (update.go:142) for the passes below.
MaxBatchFiles == 2

\* The passes over one tree.
MaxPasses == 2

\* The kinds of content (BlobObjects) the files of a commit have.
RangeKinds == {1, 2}

\* The CVE files of the tree.  A directory is <<year, digits>>, the digits
\* before "xxx" in its name: the first four files are where the layout
\* YYYY/NNNxxx puts them, CVE-2014-100011 lies in 2014/10xxx beside the
\* files with five digits.
RangeEntries ==
    { [dirPath |-> <<2014, <<1, 0>>>>, year |-> 2014, digits |-> <<1, 0, 0, 0, 1>>],
      [dirPath |-> <<2014, <<1, 0>>>>, year |-> 2014, digits |-> <<1, 0, 0, 0, 2>>],
      [dirPath |-> <<2014, <<1, 0, 0>>>>, year |-> 2014, digits |-> <<1, 0, 0, 0, 0, 9>>],
      [dirPath |-> <<2014, <<1, 0, 0>>>>, year |-> 2014, digits |-> <<1, 0, 0, 0, 1, 0>>],
      [dirPath |-> <<2014, <<1, 0>>>>, year |-> 2014, digits |-> <<1, 0, 0, 0, 1, 1>>] }

\* The directory YYYY/NNNxxx of a CVE file: the year, and the number without
\* its last three digits.
LayoutDir(e) == <<e.year, SubSeq(e.digits, 1, Len(e.digits) - 3)>>

\* Every file of the walk lies in the directory the layout gives it.
LaidOut(w) == \A i \in 1..Len(w) : w[i].dirPath = LayoutDir(w[i])

\* The orders in which walkFiles can meet the files of the tree.
RangeWalks ==
    { w \in UNION { [1..n -> RangeEntries] : n \in 1..MaxWalk } :
        /\ \A i, j \in 1..Len(w) : w[i] = w[j] => i = j
        /\ \A i, j, k \in 1..Len(w) :
              (i < k /\ k < j /\ w[i].dirPath = w[j].dirPath) => w[k].dirPath = w[i].dirPath }

\* walkFiles over the tree of the commit in which every file has content of
\* kind k (update.go:364-396).
walkCommit(w, k) ==
    [ i \in 1..Len(w) |-> [walkEntries(w)[i] EXCEPT !.blobHash = <<i, k>>] ]

\* The IDs of the files of a batch.
BatchIDs(batch) == { idFromFilename(batch[k].filename) : k \in 1..Len(batch) }

\* The IDs for which the loop of the transaction body calls handleCVE with
\* old == nil, so that handleCVE calls CreateCVERecord (update.go:216-221,
\* 269-285).
CreateCalls(batch, idToRecord) == BatchIDs(batch) \ DOMAIN idToRecord

NoBatch == [ids |-> {}, existing |-> {}, found |-> {}, creates |-> {}, err |-> FALSE]

NoRange ==
    [pc |-> "idle", entries |-> <<>>, pass |-> 0, commitHash |-> <<>>, groups |-> <<>>,
     dirIdx |-> 1, i |-> 0, last |-> NoBatch]

RangeVars == <<dirHashes, updateRecords, up, sw, issues, budget, gh, uc, sv, hs, km, cs>>

RangeInit ==
    /\ cveRecords = <<>>
    /\ dirHashes = [d \in DirPaths |-> NoHash]
    /\ updateRecords = <<>>
    /\ up = IdleUpdater
    /\ sw = [s \in Sweepers |-> IdleSweeper]
    /\ issues = <<>>
    /\ budget = [ops |-> 0, faults |-> 0]
    /\ gh = [created |-> 0, modified |-> 0, committed |-> 0,
             txs |-> [d \in DirPaths |-> 0],
             prevCommit |-> <<>>, prevOK |-> {}, curOK |-> {},
             interrupted |-> {}, retries |-> 0, lastTx |-> NoTx]
    /\ uc = NoCalls
    /\ sv = NoSemver
    /\ hs = NoSource
    /\ km = NoPkgsite
    /\ cs = NoStack
    /\ \E w \in RangeWalks : fx = [NoRange EXCEPT !.entries = w]

\* update on the commit of kind k: repoCVEFiles and groupFilesByDirectory
\* (update.go:98-107).
RangeStartPass(k) ==
    /\ fx.pc = "idle"
    /\ fx.pass < MaxPasses
    /\ LET g == groupFilesByDirectory(SortFiles(walkCommit(fx.entries, k)))
       IN  fx' = [fx EXCEPT !.pc = IF g.err THEN "idle" ELSE "updateBatch",
                           !.pass = @ + 1, !.commitHash = <<k>>,
                           !.groups = g.groups, !.dirIdx = 1, !.i = 0, !.last = NoBatch]
    /\ UNCHANGED <<cveRecords, RangeVars>>

\* updateBatch on the next batch of the directory (update.go:169-183,
\* 192-242): the transaction commits, or its body returns an error and
\* update goes on with the next directory (update.go:120-135).
RangeUpdateBatch ==
    /\ fx.pc = "updateBatch"
    /\ LET dirFiles == fx.groups[fx.dirIdx]
           j == Min(fx.i + MaxBatchFiles, Len(dirFiles))
           batch == SubSeq(dirFiles, fx.i + 1, j)
           startID == idFromFilename(batch[1].filename)
           endID == idFromFilename(batch[Len(batch)].filename)
           idToRecord == GetCVERecords(cveRecords, startID, endID)
           body == TxBody(batch, cveRecords, fx.commitHash, {}, 0, 0)
           dirDone == body.err \/ j >= Len(dirFiles)
       IN  /\ cveRecords' = IF body.err THEN cveRecords ELSE ApplyWrites(cveRecords, body.writes)
           /\ fx' = [fx EXCEPT
                        !.last = [ids |-> BatchIDs(batch),
                                  existing |-> BatchIDs(batch) \cap DOMAIN cveRecords,
                                  found |-> DOMAIN idToRecord,
                                  creates |-> CreateCalls(batch, idToRecord),
                                  err |-> body.err],
                        !.i = IF dirDone THEN 0 ELSE j,
                        !.dirIdx = IF dirDone THEN @ + 1 ELSE @,
                        !.pc = IF dirDone /\ fx.dirIdx = Len(fx.groups) THEN "idle" ELSE @]
    /\ UNCHANGED RangeVars

RangeNext ==
    \/ \E k \in RangeKinds : RangeStartPass(k)
    \/ RangeUpdateBatch

RangeSpec == RangeInit /\ [][RangeNext]_vars

(***************************************************************************)
(* affectsSemver and containsSemver (internal/vulncheck/semver.go).  A     *)
(* version string is its prefix ("", "v" or "go") and its numbers; "" has  *)
(* no numbers and "0" has the one number 0.                                *)
(***************************************************************************)
EmptyString == [prefix |-> "", num |-> <<>>]
ZeroString == [prefix |-> "", num |-> <<0>>]

\* isem.CanonicalizeSemverPrefix: the prefix "v" or "go" is stripped and
\* "v" is put in front.
CanonicalizeSemverPrefix(s) == [prefix |-> "v", num |-> s.num]

\* semver.IsValid, for the versions of the model: "v" and three numbers.
IsValid(s) == s.prefix = "v" /\ Len(s.num) = 3

\* semver.Compare: -1, 0 or +1; an invalid version is less than a valid one
\* and equal to another invalid one.
Compare(v, w) ==
    IF ~IsValid(v) /\ ~IsValid(w) THEN 0
    ELSE IF ~IsValid(v) THEN -1
    ELSE IF ~IsValid(w) THEN 1
    ELSE IF v.num[1] # w.num[1] THEN (IF v.num[1] < w.num[1] THEN -1 ELSE 1)
    ELSE IF v.num[2] # w.num[2] THEN (IF v.num[2] < w.num[2] THEN -1 ELSE 1)
    ELSE IF v.num[3] # w.num[3] THEN (IF v.num[3] < w.num[3] THEN -1 ELSE 1)
    ELSE 0

\* The versions the events of a range carry, and the versions asked about.
EventVersions ==
    { [prefix |-> "", num |-> <<1, 9, 0>>],
      [prefix |-> "", num |-> <<1, 18, 6>>],
      [prefix |-> "", num |-> <<1, 19, 1>>] }

AskedVersions ==
    { [prefix |-> "v", num |-> <<1, 0, 0>>],
      [prefix |-> "v", num |-> <<1, 9, 0>>],
      [prefix |-> "", num |-> <<1, 18, 1>>],
      [prefix |-> "go", num |-> <<1, 18, 6>>],
      [prefix |-> "v", num |-> <<1, 19, 5>>] }

\* osv.RangeEvent: exactly one of Introduced and Fixed is set.
RangeEvents ==
    { [Introduced |-> ZeroString, Fixed |-> EmptyString] }
      \cup { [Introduced |-> x, Fixed |-> EmptyString] : x \in EventVersions }
      \cup { [Introduced |-> EmptyString, Fixed |-> x] : x \in EventVersions }

TypeSemver == "SEMVER"
TypeUnspecified == "UNSPECIFIED"

\* The lists of up to k events of a range: each event at most once.
EventLists(k) ==
    { es \in UNION { [1..n -> RangeEvents] : n \in 0..k } :
        \A i, j \in 1..Len(es) : es[i] = es[j] => i = j }

\* The lists of n ranges that have up to k events between them.
RECURSIVE AffectsOf(_, _)
AffectsOf(n, k) ==
    IF n = 0 THEN { <<>> }
    ELSE UNION { { <<[Type |-> t, Events |-> es]>> \o rest :
                     rest \in AffectsOf(n - 1, k - Len(es)) } :
                 t \in {TypeSemver, TypeUnspecified}, es \in EventLists(k) }

\* osv.Affects: up to MaxRanges ranges with up to MaxEvents events between them.
AffectsLists == UNION { AffectsOf(n, MaxEvents) : n \in 0..MaxRanges }

\* less of the mutated sort: the events stay as listed.
EventLessAsListed(e1, e2) == FALSE

\* less of sort.SliceStable (semver.go:61-83)
EventLess(e1, e2) ==
    IF e1.Introduced = ZeroString THEN TRUE
    ELSE IF e2.Introduced = ZeroString THEN FALSE
    ELSE LET v1 == IF e1.Fixed # EmptyString THEN e1.Fixed ELSE e1.Introduced
             v2 == IF e2.Fixed # EmptyString THEN e2.Fixed ELSE e2.Introduced
         IN  Compare(CanonicalizeSemverPrefix(v1), CanonicalizeSemverPrefix(v2)) < 0

\* One step of the stable sort: e goes after the last event it is not less than.
InsertEvent(sorted, e) ==
    LET after == { k \in 1..Len(sorted) : ~EventLess(e, sorted[k]) }
        pos == IF after = {} THEN 0 ELSE CHOOSE k \in after : \A m \in after : m <= k
    IN  SubSeq(sorted, 1, pos) \o <<e>> \o SubSeq(sorted, pos + 1, Len(sorted))

RECURSIVE SortEvents(_)
SortEvents(es) ==
    IF Len(es) = 0 THEN <<>>
    ELSE InsertEvent(SortEvents(SubSeq(es, 1, Len(es) - 1)), es[Len(es)])

\* The loop over the sorted events (semver.go:85-92), from the flag affected.
RECURSIVE WalkEvents(_, _, _)
WalkEvents(es, v, affected) ==
    IF Len(es) = 0 THEN affected
    ELSE LET e == es[1]
             next == IF ~affected /\ e.Introduced # EmptyString
                       THEN e.Introduced = ZeroString
                              \/ Compare(v, CanonicalizeSemverPrefix(e.Introduced)) >= 0
                     ELSE IF affected /\ e.Fixed # EmptyString
                       THEN Compare(v, CanonicalizeSemverPrefix(e.Fixed)) < 0
                     ELSE affected
         IN  WalkEvents(Tail(es), v, next)

\* containsSemver (semver.go:47-95)
containsSemver(ar, v) ==
    IF ar.Type # TypeSemver THEN FALSE
    ELSE IF Len(ar.Events) = 0 THEN TRUE
    ELSE WalkEvents(SortEvents(ar.Events), CanonicalizeSemverPrefix(v), FALSE)

\* The mutated last line of affectsSemver.
NeverAffected(semverRangePresent) == FALSE

\* The last line of affectsSemver (semver.go:34)
NoSemverRange(semverRangePresent) == ~semverRangePresent

SemverVars == <<cveRecords, dirHashes, updateRecords, up, sw, issues, budget, gh, uc, fx,
                hs, km, cs>>

SemverInit ==
    /\ cveRecords = <<>>
    /\ dirHashes = [d \in DirPaths |-> NoHash]
    /\ updateRecords = <<>>
    /\ up = IdleUpdater
    /\ sw = [s \in Sweepers |-> IdleSweeper]
    /\ issues = <<>>
    /\ budget = [ops |-> 0, faults |-> 0]
    /\ gh = [created |-> 0, modified |-> 0, committed |-> 0,
             txs |-> [d \in DirPaths |-> 0],
             prevCommit |-> <<>>, prevOK |-> {}, curOK |-> {},
             interrupted |-> {}, retries |-> 0, lastTx |-> NoTx]
    /\ uc = NoCalls
    /\ fx = NoWalk
    /\ hs = NoSource
    /\ km = NoPkgsite
    /\ cs = NoStack
    /\ \E a \in AffectsLists, v \in AskedVersions :
          sv = [NoSemver EXCEPT !.pc = "affectsSemver", !.a = a, !.v = v]

\* affectsSemver with no range (semver.go:16-19)
AffectsEmpty ==
    /\ sv.pc = "affectsSemver"
    /\ Len(sv.a) = 0
    /\ sv' = [sv EXCEPT !.pc = "done", !.ret = TRUE]
    /\ UNCHANGED SemverVars

\* affectsSemver enters its loop (semver.go:20-21)
AffectsLoop ==
    /\ sv.pc = "affectsSemver"
    /\ Len(sv.a) > 0
    /\ sv' = [sv EXCEPT !.pc = "range", !.i = 1]
    /\ UNCHANGED SemverVars

\* A range of another type is passed over (semver.go:22-24)
SkipRange ==
    /\ sv.pc = "range"
    /\ sv.i <= Len(sv.a)
    /\ sv.a[sv.i].Type # TypeSemver
    /\ sv' = [sv EXCEPT !.i = @ + 1]
    /\ UNCHANGED SemverVars

\* A semver range is tested with containsSemver (semver.go:25-28)
CheckRange ==
    /\ sv.pc = "range"
    /\ sv.i <= Len(sv.a)
    /\ sv.a[sv.i].Type = TypeSemver
    /\ LET r == sv.a[sv.i]
           c == containsSemver(r, sv.v)
       IN  sv' = [sv EXCEPT !.semverRangePresent = TRUE,
                            !.checked = Append(@, [i |-> sv.i, contains |-> c]),
                            !.pc = IF c THEN "done" ELSE @,
                            !.ret = c,
                            !.i = IF c THEN @ ELSE @ + 1]
    /\ UNCHANGED SemverVars

\* The loop is over and no semver range contains v (semver.go:30-34)
AffectsReturn ==
    /\ sv.pc = "range"
    /\ sv.i > Len(sv.a)
    /\ sv' = [sv EXCEPT !.pc = "done", !.ret = NoSemverRange(sv.semverRangePresent)]
    /\ UNCHANGED SemverVars

SemverNext ==
    \/ AffectsEmpty
    \/ AffectsLoop
    \/ SkipRange
    \/ CheckRange
    \/ AffectsReturn

SemverSpec == SemverInit /\ [][SemverNext]_vars

(***************************************************************************)
(* The HTTP source of the client (client/client.go): Index and Get, the    *)
(* cache they use and the server they ask.  Times are in hours.            *)
(***************************************************************************)
Modules == {"m1", "m2"}

\* index[p] of a module the index does not list
NotListed == -1

\* osv.DBIndex: the time of every module it lists; a nil map lists none.
NilIndex == [isNil |-> TRUE, at |-> [p \in Modules |-> NotListed]]
EmptyIndex == [isNil |-> FALSE, at |-> [p \in Modules |-> NotListed]]

\* lastModified, present := index[p]
Present(index, p) == index.at[p] # NotListed

\* The module file of the server for a module it has no file for.
NotFound == [status |-> 404, entries |-> <<>>]

\* The module lists a caller asks for.
ModuleLists == { <<"m1">>, <<"m2">>, <<"m1", "m2">>, <<"m2", "m1">> }

\* time.Since(retrieved) < time.Hour*2 (client.go:106)
IndexIsFresh(now, retrieved) == now - retrieved < 2

\* The mutated test of the cached entries: any cached entries are used.
NeverStale(cached, lastModified) == FALSE

\* c.Modified.Before(lastModified) for some cached entry (client.go:168-174)
Stale(cached, lastModified) ==
    \E k \in 1..Len(cached) : cached[k].Modified < lastModified

\* The first loop of Get (client.go:159-182) from module k of the list on:
\* the entries taken from the cache and the modules still needed.
RECURSIVE SelectModules(_, _, _, _, _)
SelectModules(modules, k, index, hasCache, cached) ==
    IF k > Len(modules) THEN [entries |-> <<>>, stillNeed |-> <<>>]
    ELSE LET p == modules[k]
             rest == SelectModules(modules, k + 1, index, hasCache, cached)
         IN  IF ~Present(index, p) THEN rest
             ELSE IF hasCache /\ Len(cached[p]) # 0 /\ ~Stale(cached[p], index.at[p])
               THEN [rest EXCEPT !.entries = cached[p] \o @]
             ELSE [rest EXCEPT !.stillNeed = <<p>> \o @]

HttpVars == <<cveRecords, dirHashes, updateRecords, up, sw, issues, budget, gh, uc, fx,
              sv, km, cs>>

NoRequest == [kind |-> "none", modules |-> <<>>, index |-> NilIndex, stillNeed |-> <<>>,
              entries |-> <<>>, err |-> FALSE, indexFrom |-> "none",
              cachedIndex |-> NilIndex, fetched |-> <<>>,
              answer |-> [p \in Modules |-> NotFound], cachedBefore |-> <<>>]

HttpInit ==
    /\ cveRecords = <<>>
    /\ dirHashes = [d \in DirPaths |-> NoHash]
    /\ updateRecords = <<>>
    /\ up = IdleUpdater
    /\ sw = [s \in Sweepers |-> IdleSweeper]
    /\ issues = <<>>
    /\ budget = [ops |-> 0, faults |-> 0]
    /\ gh = [created |-> 0, modified |-> 0, committed |-> 0,
             txs |-> [d \in DirPaths |-> 0],
             prevCommit |-> <<>>, prevOK |-> {}, curOK |-> {},
             interrupted |-> {}, retries |-> 0, lastTx |-> NoTx]
    /\ uc = NoCalls
    /\ fx = NoWalk
    /\ sv = NoSemver
    /\ km = NoPkgsite
    /\ cs = NoStack
    /\ \E hasCache \in BOOLEAN :
          hs = [pc |-> "idle", hasCache |-> hasCache, clock |-> 0, calls |-> 0,
                server |-> [index |-> [EmptyIndex EXCEPT !.at["m1"] = 0],
                            files |-> [p \in Modules |->
                                         IF p = "m1"
                                           THEN [status |-> 200,
                                                 entries |-> <<[module |-> p, Modified |-> 0]>>]
                                           ELSE NotFound]],
                cache |-> [index |-> NilIndex, retrieved |-> 0,
                           entries |-> [p \in Modules |-> <<>>]],
                rq |-> NoRequest]

\* An hour passes.
Tick ==
    /\ hs.pc = "idle"
    /\ hs.clock < MaxClock
    /\ hs' = [hs EXCEPT !.clock = @ + 1]
    /\ UNCHANGED HttpVars

\* The database gets a new entry for module p: its file has one more entry
\* and the index lists p with the time of the change.
ServerPublish(p) ==
    /\ hs.pc = "idle"
    /\ Len(hs.server.files[p].entries) < MaxEntries
    /\ \A k \in 1..Len(hs.server.files[p].entries) :
          hs.server.files[p].entries[k].Modified < hs.clock
    /\ hs' = [hs EXCEPT
                !.server.index.at[p] = hs.clock,
                !.server.files[p] =
                    [status |-> 200,
                     entries |-> Append(hs.server.files[p].entries,
                                        [module |-> p, Modified |-> hs.clock])]]
    /\ UNCHANGED HttpVars

\* The file of a module the index lists is gone from the server.
ServerDropFile(p) ==
    /\ hs.pc = "idle"
    /\ hs.server.files[p].status = 200
    /\ hs' = [hs EXCEPT !.server.files[p] = NotFound]
    /\ UNCHANGED HttpVars

\* hs.Index() or hs.Get(modules) is called.
SourceCall(kind, modules) ==
    /\ hs.pc = "idle"
    /\ hs.calls < MaxGets
    /\ hs' = [hs EXCEPT !.pc = "Index", !.calls = @ + 1,
                        !.rq = [NoRequest EXCEPT !.kind = kind, !.modules = modules,
                                                 !.cachedBefore = hs.cache.entries]]
    /\ UNCHANGED HttpVars

\* Index has its result: it returns, to the caller or to Get (client.go:153).
IndexReturns(index, from, cache) ==
    hs' = [hs EXCEPT !.pc = IF hs.rq.kind = "Index" THEN "idle" ELSE "modules",
                     !.cache = cache,
                     !.rq.index = index, !.rq.indexFrom = from,
                     !.rq.cachedIndex = hs.cache.index]

\* The inner cachedIndex of client.go:100: the index read from the cache.
ReadIndex == hs.cache.index

\* The cached index is younger than two hours (client.go:99-108).
IndexFromCache ==
    /\ hs.pc = "Index"
    /\ hs.hasCache
    /\ ~ReadIndex.isNil
    /\ IndexIsFresh(hs.clock, hs.cache.retrieved)
    /\ IndexReturns(ReadIndex, "cache", hs.cache)
    /\ UNCHANGED HttpVars

\* The cached index is two hours old or older and the server, whose index
\* has not changed since the retrieval, answers the conditional GET with
\* 304: the cachedIndex of client.go:96 is returned,
\* which the read of line 100 did not assign (client.go:110-127).
IndexNotModified ==
    /\ hs.pc = "Index"
    /\ hs.hasCache
    /\ ~ReadIndex.isNil
    /\ ~IndexIsFresh(hs.clock, hs.cache.retrieved)
    /\ \A p \in Modules : hs.server.index.at[p] <= hs.cache.retrieved
    /\ IndexReturns(NilIndex, "304", hs.cache)
    /\ UNCHANGED HttpVars

\* The server answers 200 with its index, which is written to the cache
\* with the time of the retrieval (client.go:114-147).
IndexFetched ==
    /\ hs.pc = "Index"
    /\ ~(hs.hasCache /\ ~ReadIndex.isNil /\ IndexIsFresh(hs.clock, hs.cache.retrieved))
    /\ IndexReturns(hs.server.index, "200",
                    IF hs.hasCache
                      THEN [hs.cache EXCEPT !.index = hs.server.index, !.retrieved = hs.clock]
                      ELSE hs.cache)
    /\ UNCHANGED HttpVars

\* The request fails or the status is neither 200 nor an expected 304
\* (client.go:121-131): Index, and Get with it, return the error.
IndexError ==
    /\ hs.pc = "Index"
    /\ ~(hs.hasCache /\ ~ReadIndex.isNil /\ IndexIsFresh(hs.clock, hs.cache.retrieved))
    /\ hs' = [hs EXCEPT !.pc = "idle", !.rq.err = TRUE, !.rq.indexFrom = "error",
                        !.rq.cachedIndex = hs.cache.index]
    /\ UNCHANGED HttpVars

\* The first loop of Get (client.go:158-182)
GetSelect ==
    /\ hs.pc = "modules"
    /\ LET sel == SelectModules(hs.rq.modules, 1, hs.rq.index, hs.hasCache, hs.cache.entries)
       IN  hs' = [hs EXCEPT !.pc = "fetch", !.rq.entries = sel.entries,
                            !.rq.stillNeed = sel.stillNeed]
    /\ UNCHANGED HttpVars

\* One turn of the second loop of Get (client.go:184-211): the file of the
\* next module still needed is fetched; a 404 is passed over.
GetFetch ==
    /\ hs.pc = "fetch"
    /\ Len(hs.rq.stillNeed) > 0
    /\ LET p == Head(hs.rq.stillNeed)
           file == hs.server.files[p]
       IN  hs' = [hs EXCEPT
                    !.rq.stillNeed = Tail(@),
                    !.rq.fetched = Append(@, p),
                    !.rq.answer[p] = file,
                    !.rq.entries = IF file.status = 404 THEN @ ELSE @ \o file.entries,
                    !.cache.entries[p] =
                        IF file.status # 404 /\ hs.hasCache THEN file.entries ELSE @]
    /\ UNCHANGED HttpVars

\* The request for a module file fails: Get returns the error (client.go:185-201).
GetFetchError ==
    /\ hs.pc = "fetch"
    /\ Len(hs.rq.stillNeed) > 0
    /\ hs' = [hs EXCEPT !.pc = "idle", !.rq.err = TRUE,
                        !.rq.fetched = Append(@, Head(hs.rq.stillNeed)),
                        !.rq.entries = <<>>]
    /\ UNCHANGED HttpVars

\* Get returns its entries (client.go:212).
GetReturn ==
    /\ hs.pc = "fetch"
    /\ Len(hs.rq.stillNeed) = 0
    /\ hs' = [hs EXCEPT !.pc = "idle"]
    /\ UNCHANGED HttpVars

HttpNext ==
    \/ Tick
    \/ \E p \in Modules : ServerPublish(p)
    \/ \E p \in Modules : ServerDropFile(p)
    \/ SourceCall("Index", <<>>)
    \/ \E modules \in ModuleLists : SourceCall("Get", modules)
    \/ IndexFromCache
    \/ IndexNotModified
    \/ IndexFetched
    \/ IndexError
    \/ GetSelect
    \/ GetFetch
    \/ GetFetchError
    \/ GetReturn

HttpSpec == HttpInit /\ [][HttpNext]_vars

(***************************************************************************)
(* TriageCVE, cveModulePath and knownToPkgsite (worker/triage.go), called  *)
(* by several goroutines at a time.  A URL is the sequence of the segments *)
(* of its host and path, and of its fragment; a module path is a sequence  *)
(* of segments.                                                            *)
(***************************************************************************)
EmptyURL == [segs |-> <<>>, frag |-> <<>>]

\* The reference URLs of TestTriageV4CVE.
ReferenceURLs ==
    { EmptyURL,
      [segs |-> <<"groups.google.com", "forum">>, frag |-> <<"!topic", "golang-nuts", "1234">>],
      [segs |-> <<"golang.org", "x", "mod">>, frag |-> <<>>],
      [segs |-> <<"github.com", "something", "something", "404">>, frag |-> <<>>],
      [segs |-> <<"bitbucket.org", "foo", "bar", "baz", "v2">>, frag |-> <<>>] }

\* stdlibKeywords (triage.go:26-31)
stdlibKeywords ==
    { <<"github.com", "golang">>, <<"golang-announce">>, <<"golang-nuts">>, <<"golang.org">> }

StdlibSentinel == <<"Go Standard Library">>
NoModule == <<>>

\* strings.Contains(r.URL, k), on segments
Contains(url, k) ==
    LET all == url.segs \o url.frag
    IN  \E i \in 1..Len(all) :
            /\ i + Len(k) - 1 <= Len(all)
            /\ SubSeq(all, i, i + Len(k) - 1) = k

\* strings.Contains(r.URL, "golang.org/x/"): the two segments and a slash
\* after them.
ContainsGolangX(url) ==
    LET all == url.segs \o url.frag
    IN  \E i \in 1..Len(all) :
            /\ i + 2 <= Len(all)
            /\ SubSeq(all, i, i + 1) = <<"golang.org", "x">>

\* The test of triage.go:57-61
IsStdlibURL(url) ==
    \E k \in stdlibKeywords : Contains(url, k) /\ ~ContainsGolangX(url)

\* candidateModulePaths(refURL.Host + refURL.Path): the prefixes of the
\* path, longest first, down to three segments.
candidateModulePaths(segs) ==
    IF Len(segs) < 3 THEN <<>>
    ELSE [ i \in 1..(Len(segs) - 2) |-> SubSeq(segs, 1, Len(segs) - i + 1) ]

\* The module paths pkgsite is ever asked about.
ModulePaths ==
    UNION { { candidateModulePaths(u.segs)[i] : i \in 1..Len(candidateModulePaths(u.segs)) } :
            u \in ReferenceURLs }

\* The metadata service of the test (triage_test.go, getPkgsiteURL): it
\* knows anything from golang.org and bitbucket.org/foo/bar/baz.
KnownByPkgsite(mp) ==
    \/ mp[1] = "golang.org"
    \/ Len(mp) >= 4 /\ SubSeq(mp, 1, 4) = <<"bitbucket.org", "foo", "bar", "baz">>

\* The reference lists of a CVE.
ReferenceLists == UNION { [1..n -> ReferenceURLs] : n \in 0..MaxReferences }

Triagers == {"t1", "t2"}

IdleTriager ==
    [pc |-> "idle", DataVersion |-> "", refs |-> <<>>, r |-> 0, cands |-> <<>>, ci |-> 0,
     raced |-> FALSE, known |-> FALSE, module |-> NoModule, err |-> ""]

TriageVars == <<cveRecords, dirHashes, updateRecords, up, sw, issues, budget, gh, uc, fx,
                sv, hs, cs>>

TriageInit ==
    /\ cveRecords = <<>>
    /\ dirHashes = [d \in DirPaths |-> NoHash]
    /\ updateRecords = <<>>
    /\ up = IdleUpdater
    /\ sw = [s \in Sweepers |-> IdleSweeper]
    /\ issues = <<>>
    /\ budget = [ops |-> 0, faults |-> 0]
    /\ gh = [created |-> 0, modified |-> 0, committed |-> 0,
             txs |-> [d \in DirPaths |-> 0],
             prevCommit |-> <<>>, prevOK |-> {}, curOK |-> {},
             interrupted |-> {}, retries |-> 0, lastTx |-> NoTx]
    /\ uc = NoCalls
    /\ fx = NoWalk
    /\ sv = NoSemver
    /\ hs = NoSource
    /\ cs = NoStack
    /\ km = [pc |-> "running",
             seenModulePath |-> [mp \in ModulePaths |-> "absent"],
             proc |-> [t \in Triagers |-> IdleTriager],
             calls |-> 0]

Running == km.pc = "running"

\* The accesses to seenModulePath that are under way.
Reading(t) == km.proc[t].pc = "reading"
Writing(t) == km.proc[t].pc = "writing"

\* TriageCVE(c) is called on a goroutine (triage.go:34-47); a DataVersion
\* other than "4.0" is an error.
TriageCVE(t, version, refs) ==
    /\ Running
    /\ km.proc[t].pc = "idle"
    /\ km.calls < MaxTriages
    /\ km' = [km EXCEPT
                !.calls = @ + 1,
                !.proc[t] = IF version = "4.0"
                              THEN [IdleTriager EXCEPT !.pc = "reference", !.DataVersion = version,
                                                       !.refs = refs, !.r = 1]
                              ELSE [IdleTriager EXCEPT !.pc = "returned", !.DataVersion = version,
                                                       !.refs = refs,
                                                       !.err = "unsupported CVE version"]]
    /\ UNCHANGED TriageVars

\* The loop over the references is over: no module (triage.go:77).
ReturnNoModule(t) ==
    /\ Running
    /\ km.proc[t].pc = "reference"
    /\ km.proc[t].r > Len(km.proc[t].refs)
    /\ km' = [km EXCEPT !.proc[t].pc = "returned", !.proc[t].module = NoModule]
    /\ UNCHANGED TriageVars

\* A reference with an empty URL is passed over (triage.go:54-56).
SkipEmptyURL(t) ==
    /\ Running
    /\ km.proc[t].pc = "reference"
    /\ km.proc[t].r <= Len(km.proc[t].refs)
    /\ km.proc[t].refs[km.proc[t].r] = EmptyURL
    /\ km' = [km EXCEPT !.proc[t].r = @ + 1]
    /\ UNCHANGED TriageVars

\* The URL holds a standard-library keyword and not golang.org/x/
\* (triage.go:57-61).
StdlibShortCircuit(t) ==
    /\ Running
    /\ km.proc[t].pc = "reference"
    /\ km.proc[t].r <= Len(km.proc[t].refs)
    /\ km.proc[t].refs[km.proc[t].r] # EmptyURL
    /\ IsStdlibURL(km.proc[t].refs[km.proc[t].r])
    /\ km' = [km EXCEPT !.proc[t].pc = "returned", !.proc[t].module = StdlibSentinel]
    /\ UNCHANGED TriageVars

\* The candidate module paths of the URL are computed (triage.go:62-66).
Candidates(t) ==
    /\ Running
    /\ km.proc[t].pc = "reference"
    /\ km.proc[t].r <= Len(km.proc[t].refs)
    /\ km.proc[t].refs[km.proc[t].r] # EmptyURL
    /\ ~IsStdlibURL(km.proc[t].refs[km.proc[t].r])
    /\ km' = [km EXCEPT !.proc[t].pc = "candidate", !.proc[t].ci = 1,
                        !.proc[t].cands =
                            candidateModulePaths(km.proc[t].refs[km.proc[t].r].segs)]
    /\ UNCHANGED TriageVars

\* No candidate of the URL is known: the next reference (triage.go:67, 53).
NextReference(t) ==
    /\ Running
    /\ km.proc[t].pc = "candidate"
    /\ km.proc[t].ci > Len(km.proc[t].cands)
    /\ km' = [km EXCEPT !.proc[t].pc = "reference", !.proc[t].r = @ + 1]
    /\ UNCHANGED TriageVars

\* knownToPkgsite starts to read seenModulePath[modulePath] (triage.go:91).
ReadBegin(t) ==
    /\ Running
    /\ km.proc[t].pc = "candidate"
    /\ km.proc[t].ci <= Len(km.proc[t].cands)
    /\ km' = [km EXCEPT !.proc[t].pc = "reading",
                        !.proc[t].raced = \E o \in Triagers \ {t} : Writing(o)]
    /\ UNCHANGED TriageVars

\* knownToPkgsite returns b to cveModulePath, which returns the module path
\* if it is known and goes on to the next candidate if not
\* (triage.go:92, 68-75).
KnownReturns(t, b) ==
    IF b THEN [km.proc[t] EXCEPT !.pc = "returned",
                                 !.module = km.proc[t].cands[km.proc[t].ci]]
    ELSE [km.proc[t] EXCEPT !.pc = "candidate", !.ci = @ + 1]

\* The read of the map ends (triage.go:91-93).  A read that a write of
\* another goroutine overlapped is a data race: it gives any outcome.
ReadEnd(t, seen) ==
    /\ Running
    /\ Reading(t)
    /\ \/ seen = km.seenModulePath[km.proc[t].cands[km.proc[t].ci]]
       \/ km.proc[t].raced
    /\ km' = [km EXCEPT !.proc[t] =
                IF seen = "absent" THEN [@ EXCEPT !.pc = "head", !.raced = FALSE]
                ELSE [KnownReturns(t, seen = "true") EXCEPT !.raced = FALSE]]
    /\ UNCHANGED TriageVars

\* The HEAD request to pkgsite (triage.go:95-113)
HeadRequest(t) ==
    /\ Running
    /\ km.proc[t].pc = "head"
    /\ km' = [km EXCEPT !.proc[t].pc = "write",
                        !.proc[t].known = KnownByPkgsite(km.proc[t].cands[km.proc[t].ci])]
    /\ UNCHANGED TriageVars

\* The rate limiter or the request returns an error (triage.go:95-97, 110-112).
HeadRequestError(t) ==
    /\ Running
    /\ km.proc[t].pc = "head"
    /\ km' = [km EXCEPT !.proc[t].pc = "returned", !.proc[t].err = "HEAD"]
    /\ UNCHANGED TriageVars

\* knownToPkgsite starts to write seenModulePath[modulePath] (triage.go:114);
\* the reads under way are raced.
WriteBegin(t) ==
    /\ Running
    /\ km.proc[t].pc = "write"
    /\ km' = [km EXCEPT !.proc =
                [o \in Triagers |->
                    IF o = t THEN [km.proc[o] EXCEPT !.pc = "writing"]
                    ELSE IF Reading(o) THEN [km.proc[o] EXCEPT !.raced = TRUE]
                    ELSE km.proc[o]]]
    /\ UNCHANGED TriageVars

\* The write ends and knownToPkgsite returns known (triage.go:114-115).
WriteEnd(t) ==
    /\ Running
    /\ Writing(t)
    /\ km' = [km EXCEPT
                !.seenModulePath[km.proc[t].cands[km.proc[t].ci]] =
                    IF km.proc[t].known THEN "true" ELSE "false",
                !.proc[t] = KnownReturns(t, km.proc[t].known)]
    /\ UNCHANGED TriageVars

\* The runtime finds the map written while it is read or written by
\* another goroutine and stops the process ("concurrent map writes").
FatalError ==
    /\ Running
    /\ \E t, o \in Triagers : t # o /\ Writing(t) /\ (Reading(o) \/ Writing(o))
    /\ km' = [km EXCEPT !.pc = "fatal error"]
    /\ UNCHANGED TriageVars

\* The caller takes the result of TriageCVE.
TriageDone(t) ==
    /\ Running
    /\ km.proc[t].pc = "returned"
    /\ km' = [km EXCEPT !.proc[t] = IdleTriager]
    /\ UNCHANGED TriageVars

TriageNext ==
    \/ \E t \in Triagers, version \in {"4.0", "5.0"}, refs \in ReferenceLists :
          TriageCVE(t, version, refs)
    \/ \E t \in Triagers :
          \/ ReturnNoModule(t)
          \/ SkipEmptyURL(t)
          \/ StdlibShortCircuit(t)
          \/ Candidates(t)
          \/ NextReference(t)
          \/ ReadBegin(t)
          \/ \E seen \in {"absent", "true", "false"} : ReadEnd(t, seen)
          \/ HeadRequest(t)
          \/ HeadRequestError(t)
          \/ WriteBegin(t)
          \/ WriteEnd(t)
          \/ TriageDone(t)
    \/ FatalError

TriageSpec == TriageInit /\ [][TriageNext]_vars

(***************************************************************************)
(* summarizeCallStack (cmd/govulncheck/main.go).  The entries of a call    *)
(* stack are numbered from 1, the entry point of the program first; an     *)
(* index of 0 stands for the -1 of the code.                               *)
(***************************************************************************)
Packages == {"a", "b", "v"}

\* vulncheck.FuncNode: a function of a package, or a method whose package
\* is in the type of its receiver only.
FuncNodes ==
    { [PkgPath |-> p, RecvType |-> <<>>, Name |-> "f"] : p \in Packages }
      \cup { [PkgPath |-> "", RecvType |-> <<"*", p, "T">>, Name |-> "g"] : p \in Packages }

\* pkgPath (main.go:342-351): PkgPath, or the receiver type without its
\* star and without what follows the last dot.
pkgPath(fn) ==
    IF fn.PkgPath # "" THEN fn.PkgPath
    ELSE LET st == IF Len(fn.RecvType) > 0 /\ fn.RecvType[1] = "*"
                     THEN Tail(fn.RecvType) ELSE fn.RecvType
         IN  IF Len(st) > 1 THEN st[1] ELSE ""

\* funcName (main.go:353-355): the name of the function with its package
\* and receiver, without the star.
funcName(fn) ==
    IF fn.PkgPath # "" THEN <<fn.PkgPath, fn.Name>>
    ELSE <<pkgPath(fn), fn.RecvType[Len(fn.RecvType)], fn.Name>>

CallStacks == UNION { [1..n -> FuncNodes] : n \in 0..MaxFrames }

\* The mutated lowest: the entry with the smallest index.
lowestIndexed(found) ==
    IF found = {} THEN 0 ELSE CHOOSE i \in found : \A j \in found : i <= j

\* lowest (main.go:333-340): the entry with the largest index among those
\* for which f is true.
lowest(found) ==
    IF found = {} THEN 0 ELSE CHOOSE i \in found : \A j \in found : j <= i

\* highest (main.go:322-329): the entry with the smallest index among those
\* for which f is true.
highest(found) ==
    IF found = {} THEN 0 ELSE CHOOSE i \in found : \A j \in found : i <= j

\* fmt.Sprintf of the two forms of the summary (main.go:313-317)
CallsSummary(topName, vulnName) == <<topName, " calls ", vulnName>>
EventuallyCallsSummary(topName, midName, vulnName) ==
    <<topName, " calls ", midName, ", which eventually calls ", vulnName>>

NoSummary == <<>>

StackVars == <<cveRecords, dirHashes, updateRecords, up, sw, issues, budget, gh, uc, fx,
               sv, hs, km>>

StackInit ==
    /\ cveRecords = <<>>
    /\ dirHashes = [d \in DirPaths |-> NoHash]
    /\ updateRecords = <<>>
    /\ up = IdleUpdater
    /\ sw = [s \in Sweepers |-> IdleSweeper]
    /\ issues = <<>>
    /\ budget = [ops |-> 0, faults |-> 0]
    /\ gh = [created |-> 0, modified |-> 0, committed |-> 0,
             txs |-> [d \in DirPaths |-> 0],
             prevCommit |-> <<>>, prevOK |-> {}, curOK |-> {},
             interrupted |-> {}, retries |-> 0, lastTx |-> NoTx]
    /\ uc = NoCalls
    /\ fx = NoWalk
    /\ sv = NoSemver
    /\ hs = NoSource
    /\ km = NoPkgsite
    /\ \E stack \in CallStacks, topPkgs \in SUBSET Packages, vulnPkg \in Packages :
          cs = [pc |-> "summarizeCallStack", cs |-> stack, topPkgs |-> topPkgs,
                vulnPkg |-> vulnPkg, iTop |-> 0, iVuln |-> 0, ret |-> NoSummary]

\* The entries of the stack in a top package (main.go:297-299)
InTopPkgs == { i \in 1..Len(cs.cs) : pkgPath(cs.cs[i]) \in cs.topPkgs }

\* The entries of cs[iTop+1:] in the vulnerable package (main.go:304-306),
\* numbered within that slice.
InVulnPkg(iTop) ==
    { i \in 1..(Len(cs.cs) - iTop) : pkgPath(cs.cs[iTop + i]) = cs.vulnPkg }

\* The lowest function in the top packages is found (main.go:296-299).
FindTop ==
    /\ cs.pc = "summarizeCallStack"
    /\ lowest(InTopPkgs) # 0
    /\ cs' = [cs EXCEPT !.pc = "highest", !.iTop = lowest(InTopPkgs)]
    /\ UNCHANGED StackVars

\* No function of the stack is in a top package (main.go:300-302).
NoTop ==
    /\ cs.pc = "summarizeCallStack"
    /\ lowest(InTopPkgs) = 0
    /\ cs' = [cs EXCEPT !.pc = "done", !.ret = NoSummary]
    /\ UNCHANGED StackVars

\* The highest function of the vulnerable package below iTop is found and
\* the summary is written (main.go:303-317).
Summarize ==
    /\ cs.pc = "highest"
    /\ highest(InVulnPkg(cs.iTop)) # 0
    /\ LET iVuln == highest(InVulnPkg(cs.iTop)) + cs.iTop
           topName == funcName(cs.cs[cs.iTop])
           vulnName == funcName(cs.cs[iVuln])
       IN  cs' = [cs EXCEPT
                    !.pc = "done", !.iVuln = iVuln,
                    !.ret = IF iVuln = cs.iTop + 1
                              THEN CallsSummary(topName, vulnName)
                              ELSE EventuallyCallsSummary(topName,
                                       funcName(cs.cs[cs.iTop + 1]), vulnName)]
    /\ UNCHANGED StackVars

\* No function below iTop is in the vulnerable package (main.go:307-309).
NoVuln ==
    /\ cs.pc = "highest"
    /\ highest(InVulnPkg(cs.iTop)) = 0
    /\ cs' = [cs EXCEPT !.pc = "done", !.ret = NoSummary]
    /\ UNCHANGED StackVars

StackNext ==
    \/ FindTop
    \/ NoTop
    \/ Summarize
    \/ NoVuln

StackSpec == StackInit /\ [][StackNext]_vars

(***************************************************************************)
(* Properties.                                                             *)
(***************************************************************************)
FileID(f) == idFromFilename(f.filename)

\* The step is the commit of a transaction of updateBatch.
BatchCommitted ==
    /\ up.pc = "updateBatch"
    /\ up'.pc \in {"updateBatch", "setDirectoryHash"}
    /\ up'.i = up.i + maxTransactionWrites

\* The files of the batch whose record exists with another blob hash.
ChangedFiles ==
    { k \in 1..Len(Batch) :
        /\ FileID(Batch[k]) \in DOMAIN cveRecords
        /\ cveRecords[FileID(Batch[k])].BlobHash # Batch[k].blobHash }

\* The module the classifier returns for the blob of f in a pass that knows
\* the IDs known, "" when it returns none or is not asked.
ClassifierModule(f, known) ==
    LET b == BlobObjects[f.blobHash[2]]
    IN  IF b.State = "PUBLIC" /\ FileID(f) \notin known THEN b.refModule ELSE ""

\* C1: when update returns a nil error, every CVE file of the commit has a
\* record in the store, and the record has the blob hash of the file.
C1_SuccessStoresEveryFile ==
    (up.pc = "idle" /\ up.ret = "nil") =>
        \A k \in 1..Len(RepoLayout) :
            LET f == walkFiles(up.commitHash)[k]
            IN  /\ FileID(f) \in DOMAIN cveRecords
                /\ cveRecords[FileID(f)].BlobHash = f.blobHash

\* C2: a committed batch moves a record in NoActionNeeded whose blob changed
\* to NeedsIssue with the module found when the classifier returns a module
\* and leaves it in NoActionNeeded otherwise; it moves a record in NeedsIssue
\* to NoActionNeeded with Module and CVE cleared when the classifier returns
\* no module and leaves it in NeedsIssue otherwise.
C2_PreIssueReclassification ==
    [][BatchCommitted =>
        \A k \in ChangedFiles :
            LET old == cveRecords[FileID(Batch[k])]
                new == cveRecords'[FileID(Batch[k])]
                mp == ClassifierModule(Batch[k], up.knownIDs)
            IN  /\ old.TriageState = "NoActionNeeded" =>
                     IF mp # ""
                     THEN new.TriageState = "NeedsIssue" /\ new.Module = mp
                     ELSE new.TriageState = "NoActionNeeded"
                /\ old.TriageState = "NeedsIssue" =>
                     IF mp = ""
                     THEN /\ new.TriageState = "NoActionNeeded"
                          /\ new.Module = ""
                          /\ new.CVE = <<>>
                     ELSE new.TriageState = "NeedsIssue"]_vars

\* A batch has just moved a record from NoActionNeeded to NeedsIssue.
C2_Witness ==
    /\ gh.lastTx.kind = "update"
    /\ \E w \in gh.lastTx.writes : w.from = "NoActionNeeded" /\ w.to = "NeedsIssue"

\* C3: a committed batch leaves a record that was in IssueCreated or
\* UpdatedSinceIssueCreation, and whose blob changed, in
\* UpdatedSinceIssueCreation with a reason that records the module the
\* classifier returns for the new blob ("" when none).
C3_PostIssueChange ==
    [][BatchCommitted =>
        \A k \in ChangedFiles :
            LET old == cveRecords[FileID(Batch[k])]
                new == cveRecords'[FileID(Batch[k])]
                mp == ClassifierModule(Batch[k], up.knownIDs)
            IN  old.TriageState \in {"IssueCreated", "UpdatedSinceIssueCreation"} =>
                    /\ new.TriageState = "UpdatedSinceIssueCreation"
                    /\ new.TriageStateReason = ChangedReason(mp)]_vars

\* A batch has just rewritten a record that was in UpdatedSinceIssueCreation.
C3_Witness ==
    /\ gh.lastTx.kind = "update"
    /\ \E w \in gh.lastTx.writes :
          w.from = "UpdatedSinceIssueCreation" /\ w.to = "UpdatedSinceIssueCreation"

\* The transitions of the triage state machine between two states.
Transitions ==
    { <<"NoActionNeeded", "NeedsIssue">>,
      <<"NeedsIssue", "NoActionNeeded">>,
      <<"NeedsIssue", "IssueCreated">>,
      <<"IssueCreated", "UpdatedSinceIssueCreation">>,
      <<"UpdatedSinceIssueCreation", "UpdatedSinceIssueCreation">> }

\* C4: in every step of every interleaving of passes and sweeps, the triage
\* state of a record changes only along a transition of the state machine,
\* and a record is written with IssueCreated only when its state in the
\* store just before the write was NeedsIssue.
C4_OnlyStateMachineTransitions ==
    [][\A id \in DOMAIN cveRecords :
          /\ id \in DOMAIN cveRecords'
          /\ cveRecords'[id].TriageState # cveRecords[id].TriageState =>
                <<cveRecords[id].TriageState, cveRecords'[id].TriageState>> \in Transitions
          /\ (cveRecords'[id] # cveRecords[id] /\ cveRecords'[id].TriageState = "IssueCreated") =>
                cveRecords[id].TriageState = "NeedsIssue"]_vars

\* C5: every record in IssueCreated has a non-empty IssueReference and a
\* non-zero IssueCreatedAt.
C5_IssueCreatedHasIssueFields ==
    \A id \in DOMAIN cveRecords :
        cveRecords[id].TriageState = "IssueCreated" =>
            /\ cveRecords[id].IssueReference # <<>>
            /\ cveRecords[id].IssueCreatedAt # ZeroTime

\* A sweep has recorded an issue: some record is in IssueCreated.
C5_Witness ==
    \E id \in DOMAIN cveRecords : cveRecords[id].TriageState = "IssueCreated"

\* C6: as long as no pass or sweep has crashed or failed, the issue client
\* has created at most one issue for each CVE ID, also when sweeps overlap.
C6_AtMostOneIssuePerCVE ==
    budget.faults = 0 =>
        \A i, j \in 1..Len(issues) : issues[i] = issues[j] => i = j

\* Directory d has the same tree hash in the commit of the pass and in the
\* commit of the pass before it.
SameTreeHash(d) ==
    /\ gh.prevCommit # <<>>
    /\ TreeHash(up.commitHash, d) = TreeHash(gh.prevCommit[1], d)

\* C7 as stated: a pass runs no transaction for a directory whose tree hash
\* is the one it had in the commit of the pass before.
C7_UnchangedDirectoryNoTransaction ==
    \A d \in DirPaths : SameTreeHash(d) => gh.txs[d] = 0

\* C7: a pass runs no transaction for a directory whose tree hash is the one
\* it had in the commit of the pass before, when updateDirectory returned
\* without error for the directory in that pass.
C7_FinishedDirectoryNoTransaction ==
    \A d \in DirPaths : (SameTreeHash(d) /\ d \in gh.prevOK) => gh.txs[d] = 0

\* A second pass has returned after skipping a directory that the pass before
\* finished with the same tree hash.
C7_Witness ==
    /\ up.pc = "idle" /\ up.ret = "nil"
    /\ \E d \in DirPaths :
          SameTreeHash(d) /\ d \in gh.prevOK /\ d \in gh.curOK /\ gh.txs[d] = 0

\* Every file of directory d under the stored tree hash has a record with
\* the blob hash of the file.
HashImpliesRecords(d) ==
    dirHashes[d].kind = "tree" =>
        \A e \in dirHashes[d].entries :
            LET id == idFromFilename(Filename(RepoLayout[e[1]]))
            IN  id \in DOMAIN cveRecords /\ cveRecords[id].BlobHash = e

\* C8: at every point, a directory whose stored hash is a tree hash has a
\* record with the right blob hash for every file under that hash; a
\* directory that a pass left in the middle, by a crash or an error, is
\* stored as "in progress", as is the directory being processed; and the
\* next pass that reaches an interrupted directory does not skip it.
C8_DirectoryHashSound ==
    /\ [](/\ \A d \in DirPaths : HashImpliesRecords(d)
          /\ \A d \in gh.interrupted : dirHashes[d] = InProgress
          /\ up.pc \in {"updateBatch", "setDirectoryHash"} => dirHashes[DirPath] = InProgress)
    /\ [][(/\ up.pc = "updateDirectory"
           /\ DirPath \in gh.interrupted
           /\ up'.pc = "directoryDone") => up'.dirErr # ""]_vars

\* A pass is processing again a directory that an earlier pass left in the
\* middle, while the hash of another directory is stored.
C8_Witness ==
    /\ up.pc = "updateBatch"
    /\ DirPath \in gh.interrupted
    /\ \E d \in DirPaths : dirHashes[d].kind = "tree"

\* The files of the batch whose record exists with the same blob hash.
UnchangedFiles ==
    { k \in 1..Len(Batch) :
        /\ FileID(Batch[k]) \in DOMAIN cveRecords
        /\ cveRecords[FileID(Batch[k])].BlobHash = Batch[k].blobHash }

\* C9: a committed batch leaves every field of a record whose BlobHash is
\* the blob hash of its file as it was, and counts as added or modified
\* only the other files of the batch.
C9_SameBlobNoWrite ==
    [][BatchCommitted =>
        /\ \A k \in UnchangedFiles :
              cveRecords'[FileID(Batch[k])] = cveRecords[FileID(Batch[k])]
        /\ (up'.stats.numAdded - up.stats.numAdded)
              + (up'.stats.numModified - up.stats.numModified)
              = Len(Batch) - Cardinality(UnchangedFiles)]_vars

\* A batch has just been committed that held a file with an unchanged blob.
C9_Witness ==
    /\ gh.lastTx.kind = "update"
    /\ gh.lastTx.unchanged # {}

\* The step is a re-execution of the body of the transaction of updateBatch.
BodyRetried ==
    /\ up.pc = "updateBatch"
    /\ budget'.ops = budget.ops + 1

\* C10: the counts a committed batch adds to the directory stats are the
\* numbers of records the commit created and modified, whatever the number
\* of executions of the body before; an execution that does not commit
\* changes neither the stats nor the commit update record; and the counts
\* of the commit update record never exceed the records the pass created
\* and modified.
C10_CountersNotInflatedByRetries ==
    /\ [][(BatchCommitted =>
              /\ up'.stats.numAdded - up.stats.numAdded
                    = Cardinality(DOMAIN cveRecords' \ DOMAIN cveRecords)
              /\ up'.stats.numModified - up.stats.numModified
                    = Cardinality({ id \in DOMAIN cveRecords :
                                      cveRecords'[id] # cveRecords[id] }))
           /\ (BodyRetried =>
              /\ up'.stats = up.stats
              /\ up'.ur = up.ur
              /\ updateRecords' = updateRecords
              /\ cveRecords' = cveRecords)]_vars
    /\ [](/\ up.ur.NumAdded + up.stats.numAdded <= gh.created
          /\ up.ur.NumModified + up.stats.numModified <= gh.modified
          /\ up.ur.ID # 0 =>
                /\ updateRecords[up.ur.ID].NumAdded <= gh.created
                /\ updateRecords[up.ur.ID].NumModified <= gh.modified)

\* A batch that wrote a record has just been committed after the store had
\* executed its body more than once.
C10_Witness ==
    /\ gh.lastTx.kind = "update"
    /\ gh.lastTx.retries > 0
    /\ gh.lastTx.writes # {}

\* C11: when updateDirectory has returned an error, update goes on with no
\* other directory: it returns a non-nil error, and the commit update record
\* of the store holds the error.
C11_DirectoryErrorAbortsPass ==
    [][(/\ up.pc = "directoryDone"
        /\ up.dirErr # ""
        /\ up' # up
        /\ up'.ret # "crashed") =>
            /\ up'.pc = "idle"
            /\ up'.ret = "err"
            /\ updateRecords'[up.ur.ID].Error = up.dirErr]_vars

\* The latest commit update record, when there is one.
LatestUpdate == ListCommitUpdateRecords(updateRecords, 1)[1]

\* No pass is running and the latest pass ended with an error in its record.
EndedWithError ==
    /\ up.pc = "idle"
    /\ updateRecords # <<>>
    /\ LatestUpdate.EndedAt # ZeroTime
    /\ LatestUpdate.Error # ""

\* The step is an UpdateCommit call that checkUpdate rejects.
CallRejected ==
    /\ up.pc = "idle"
    /\ up'.pc = "idle"
    /\ up'.ret = "CheckUpdateError"
    /\ budget'.ops = budget.ops + 1
    /\ sw' = sw

\* C12 as stated: after a pass that ended with an error in its commit update
\* record, checkUpdate accepts the same and every later commit.
C12_AcceptedAfterError ==
    EndedWithError =>
        \A c \in Commits :
            CommitTime(c) >= LatestUpdate.CommitTime => checkUpdate(updateRecords, c) = "nil"

\* C12: after a pass that ended with an error in its commit update record,
\* checkUpdate rejects every commit with a CheckUpdateError, and the rejected
\* call changes nothing in the store; a pass that runs all the same (with
\* force) does not skip a directory whose stored hash is "in progress".
C12_RejectedAfterError ==
    /\ [](EndedWithError =>
            \A c \in Commits : checkUpdate(updateRecords, c) = "CheckUpdateError")
    /\ [][CallRejected => UNCHANGED <<cveRecords, dirHashes, updateRecords, issues>>]_vars
    /\ [][(/\ up.pc = "updateDirectory"
           /\ dirHashes[DirPath] = InProgress
           /\ up'.pc = "directoryDone") => up'.dirErr # ""]_vars

\* A pass started after one that ended with an error in its record is
\* processing again a directory that was left in the middle.
C12_Witness ==
    /\ up.pc = "updateBatch"
    /\ DirPath \in gh.interrupted
    /\ Len(updateRecords) >= 2
    /\ updateRecords[Len(updateRecords) - 1].EndedAt # ZeroTime
    /\ updateRecords[Len(updateRecords) - 1].Error # ""

\* C13: after a pass without store error or crash, every file of the commit
\* that is JSON of DataVersion 4.0 has a record with the blob hash of the
\* file, whatever the other files of its batch and directory are, in every
\* directory of the commit.
C13_OnlyBadRecordSkipped ==
    (up.pc = "idle" /\ up.ret = "nil" /\ budget.faults = 0) =>
        \A k \in 1..Len(RepoLayout) :
            LET f == walkFiles(up.commitHash)[k]
                b == BlobObjects[f.blobHash[2]]
            IN  (b.valid /\ b.DataVersion = "4.0") =>
                    /\ FileID(f) \in DOMAIN cveRecords
                    /\ cveRecords[FileID(f)].BlobHash = f.blobHash

\* C14: checkUpdate rejects with a CheckUpdateError every commit made before
\* the commit of the latest commit update record, and the rejected call
\* changes nothing in the store; a pass that starts for a commit checkUpdate
\* accepts has a commit time that is not before the one of the latest record.
C14_CommitTimeMonotonic ==
    /\ [](up.pc = "idle" /\ updateRecords # <<>> =>
            \A c \in Commits :
                CommitTime(c) < LatestUpdate.CommitTime =>
                    checkUpdate(updateRecords, c) = "CheckUpdateError")
    /\ [][CallRejected => UNCHANGED <<cveRecords, dirHashes, updateRecords, issues, gh>>]_vars
    /\ [][(/\ updateRecords # <<>>
           /\ Len(updateRecords') = Len(updateRecords) + 1
           /\ checkUpdate(updateRecords, up'.commitHash) = "nil") =>
               CommitTime(up'.commitHash) >= LatestUpdate.CommitTime]_vars

\* A call for a commit older than the one of the latest pass, which ended
\* without error, has been rejected.
C14_Witness ==
    /\ up.pc = "idle"
    /\ up.ret = "CheckUpdateError"
    /\ updateRecords # <<>>
    /\ LatestUpdate.EndedAt # ZeroTime
    /\ LatestUpdate.Error = ""
    /\ \E c \in Commits : CommitTime(c) < LatestUpdate.CommitTime

\* The files of the batch that the transaction writes.
WrittenFiles == (1..Len(Batch)) \ UnchangedFiles

\* The callers whose pass is running: its commit update record is created
\* and its EndedAt is not set.
RunningPasses == { p \in Callers : uc.proc[p].pc = "running" }

\* C15: among the concurrent UpdateCommit calls made without force, at most
\* one has a pass running at any time.
C15_OnePassAtATime == Cardinality(RunningPasses) <= 1

\* C16: a committed batch writes the record of a CVE whose ID is known to
\* the vuln DB, new or not, with TriageState NoActionNeeded and the reason
\* "already in vuln DB".
C16_KnownIDShortCircuit ==
    [][BatchCommitted =>
        \A k \in WrittenFiles :
            FileID(Batch[k]) \in up.knownIDs =>
                /\ cveRecords'[FileID(Batch[k])].TriageState = "NoActionNeeded"
                /\ cveRecords'[FileID(Batch[k])].TriageStateReason = <<"already in vuln DB">>]_vars

\* C17: a record holds a cached CVE only in NeedsIssue.
C17_CachedCVEOnlyWhenNeedsIssue ==
    \A id \in DOMAIN cveRecords :
        cveRecords[id].CVE # <<>> => cveRecords[id].TriageState = "NeedsIssue"

\* The IDs of the issues created so far.
IssueIDs == { issues[k] : k \in 1..Len(issues) }

\* C18: a sweep with a limit has submitted at most limit issues and recorded
\* at most limit of them; each issue is created for the record the sweep is
\* at in its list of the records in NeedsIssue; and a sweep without limit
\* that returns nil has created an issue for every record of its list that
\* had no issue fields.
C18_SweepLimit ==
    /\ [](\A s \in Sweepers :
            sw[s].limit > 0 =>
                /\ sw[s].submitted <= sw[s].limit
                /\ sw[s].numCreated <= sw[s].limit)
    /\ [][issues' # issues =>
            \E s \in Sweepers :
                /\ sw[s].pc = "loop"
                /\ sw'[s].submitted = sw[s].submitted + 1
                /\ sw[s].needsIssue[sw[s].pos].TriageState = "NeedsIssue"
                /\ issues' = Append(issues, sw[s].needsIssue[sw[s].pos].ID)]_vars
    /\ [][\A s \in Sweepers :
            (/\ sw[s].pc = "loop"
             /\ sw'[s].pc = "idle"
             /\ budget'.faults = budget.faults
             /\ sw[s].limit = 0) =>
                \A k \in 1..Len(sw[s].needsIssue) :
                    \/ sw[s].needsIssue[k].IssueReference # <<>>
                    \/ sw[s].needsIssue[k].IssueCreatedAt # ZeroTime
                    \/ sw[s].needsIssue[k].ID \in IssueIDs]_vars

\* A sweep with limit 1 that listed two records has recorded one issue and
\* is back at the head of its loop.
C18_Witness ==
    \E s \in Sweepers :
        /\ sw[s].pc = "loop"
        /\ sw[s].limit = 1
        /\ Len(sw[s].needsIssue) >= 2
        /\ sw[s].numCreated = 1

\* repoCVEFiles has returned.
Sorted == fx.pc \in {"groupFilesByDirectory", "updateBatch", "done"}

Grouped == fx.pc \in {"updateBatch", "done"}

RECURSIVE Concat(_)
Concat(ss) == IF Len(ss) = 0 THEN <<>> ELSE ss[1] \o Concat(Tail(ss))

\* Some directory path occurs in two different runs of the files.
NotContiguous(files) ==
    \E i, j, k \in 1..Len(files) :
        /\ i < k /\ k < j
        /\ files[i].dirPath = files[j].dirPath
        /\ files[k].dirPath # files[i].dirPath

\* C20: groupFilesByDirectory returns an error exactly when a directory path
\* occurs in two different runs of its input; otherwise its groups are not
\* empty, hold files of one directory each, two groups in a row are not of
\* the same directory, and the groups one after the other are the input.
C20_GroupsAreMaximalRuns ==
    Grouped =>
        /\ fx.err <=> NotContiguous(fx.files)
        /\ ~fx.err =>
              /\ Concat(fx.groups) = fx.files
              /\ \A g \in 1..Len(fx.groups) :
                    /\ Len(fx.groups[g]) > 0
                    /\ \A i \in 1..Len(fx.groups[g]) :
                          fx.groups[g][i].dirPath = fx.groups[g][1].dirPath
              /\ \A g \in 1..(Len(fx.groups) - 1) :
                    fx.groups[g][1].dirPath # fx.groups[g + 1][1].dirPath

\* groupFilesByDirectory has returned two groups, one of them of two files.
C20_Witness ==
    /\ Grouped
    /\ ~fx.err
    /\ Len(fx.groups) = 2
    /\ \E g \in 1..2 : Len(fx.groups[g]) = 2

\* The version an event carries.
EventVersion(e) == IF e.Fixed # EmptyString THEN e.Fixed ELSE e.Introduced

\* x is before y in the order of the versions, "0" before every other version.
VersionBefore(x, y) ==
    IF x = ZeroString THEN y # ZeroString
    ELSE IF y = ZeroString THEN FALSE
    ELSE Compare(CanonicalizeSemverPrefix(x), CanonicalizeSemverPrefix(y)) < 0

\* v is at or after the version x of an event.
AtOrAfter(v, x) == x = ZeroString \/ Compare(CanonicalizeSemverPrefix(v), CanonicalizeSemverPrefix(x)) >= 0

\* The versions of the events are pairwise distinct and, in the order of the
\* versions, introduced and fixed events alternate.
AlternatingEvents(es) ==
    /\ \A i, j \in 1..Len(es) :
          i # j => VersionBefore(EventVersion(es[i]), EventVersion(es[j]))
                     \/ VersionBefore(EventVersion(es[j]), EventVersion(es[i]))
    /\ \A i, j \in 1..Len(es) :
          ( /\ VersionBefore(EventVersion(es[i]), EventVersion(es[j]))
            /\ ~ \E k \in 1..Len(es) :
                    /\ VersionBefore(EventVersion(es[i]), EventVersion(es[k]))
                    /\ VersionBefore(EventVersion(es[k]), EventVersion(es[j])) )
          => ((es[i].Fixed = EmptyString) # (es[j].Fixed = EmptyString))

\* v lies in an interval [introduced, next fixed) of the events.
InInterval(es, v) ==
    \E i \in 1..Len(es) :
        /\ es[i].Introduced # EmptyString
        /\ AtOrAfter(v, es[i].Introduced)
        /\ ~ \E j \in 1..Len(es) :
                /\ es[j].Fixed # EmptyString
                /\ VersionBefore(es[i].Introduced, es[j].Fixed)
                /\ AtOrAfter(v, es[j].Fixed)

AffectsReturned == sv.pc = "done"

SemverRanges == { i \in 1..Len(sv.a) : sv.a[i].Type = TypeSemver }

\* C21: affectsSemver(A, V) is true if A is empty or holds no range of type
\* semver, and otherwise it is true exactly when a range of type semver of A
\* contains V; a range of another type never makes it true.
C21_AffectsSemver ==
    AffectsReturned =>
        ( sv.ret <=>
            \/ Len(sv.a) = 0
            \/ SemverRanges = {}
            \/ \E i \in SemverRanges : containsSemver(sv.a[i], sv.v) )

\* A range of another type whose events hold the version, before a semver
\* range that does not contain it: the answer is false.
C21_Witness ==
    /\ AffectsReturned
    /\ Len(sv.a) = 2
    /\ sv.a[1].Type = TypeUnspecified
    /\ InInterval(sv.a[1].Events, sv.v)
    /\ sv.a[2].Type = TypeSemver
    /\ ~sv.ret

\* C22: for a semver range whose events have pairwise distinct versions and
\* alternate between introduced and fixed in the order of the versions,
\* containsSemver is true exactly when the version lies in an interval
\* [introduced, next fixed), in whatever order the events are listed; a
\* range {introduced "0", fixed X} holds exactly the versions before X, and a
\* range without events holds every version.
C22_ContainsSemver ==
    \A n \in 1..Len(sv.checked) :
        LET c == sv.checked[n]
            es == sv.a[c.i].Events
        IN  /\ Len(es) = 0 => c.contains
            /\ (Len(es) > 0 /\ AlternatingEvents(es)) => (c.contains <=> InInterval(es, sv.v))
            /\ \A x \in EventVersions :
                  (\A k \in 1..Len(es) :
                        es[k] \in { [Introduced |-> ZeroString, Fixed |-> EmptyString],
                                    [Introduced |-> EmptyString, Fixed |-> x] }) /\ Len(es) = 2
                  => (c.contains <=> ~AtOrAfter(sv.v, x))

\* Three events listed out of order, two intervals, and the version lies in
\* the second one.
C22_Witness ==
    \E n \in 1..Len(sv.checked) :
        LET c == sv.checked[n]
            es == sv.a[c.i].Events
        IN  /\ Len(es) = 3
            /\ AlternatingEvents(es)
            /\ es[1].Fixed # EmptyString
            /\ es[3].Introduced = ZeroString
            /\ AtOrAfter(sv.v, es[2].Introduced)
            /\ c.contains

\* Index has returned to its caller, or to Get, after a 304.
ReturnedAfterNotModified == hs.rq.indexFrom = "304"

\* C23: with a cached index two hours old or older and a 304 from the
\* server, Index returns the index that is in the cache, so that a
\* following Get finds the modules listed in it.
C23_NotModifiedReturnsCachedIndex ==
    ReturnedAfterNotModified =>
        /\ hs.rq.index = hs.rq.cachedIndex
        /\ \A p \in Modules : Present(hs.rq.cachedIndex, p) => Present(hs.rq.index, p)

\* Get has returned its entries without an error.
GetReturned == hs.pc = "idle" /\ hs.rq.kind = "Get" /\ ~hs.rq.err

\* The module was asked for in the call, and its file was requested.
Asked(p) == \E k \in 1..Len(hs.rq.modules) : hs.rq.modules[k] = p
Fetched(p) == \E k \in 1..Len(hs.rq.fetched) : hs.rq.fetched[k] = p

\* The entries of module p among es, in order.
RECURSIVE EntriesOf(_, _)
EntriesOf(es, p) ==
    IF Len(es) = 0 THEN <<>>
    ELSE (IF es[1].module = p THEN <<es[1]>> ELSE <<>>) \o EntriesOf(Tail(es), p)

\* The cache answers for p: it held entries for p when Get was called and
\* none of them was modified before the time the index gives for p.
CacheAnswers(p) ==
    /\ hs.hasCache
    /\ Len(hs.rq.cachedBefore[p]) # 0
    /\ \A k \in 1..Len(hs.rq.cachedBefore[p]) :
          ~(hs.rq.cachedBefore[p][k].Modified < hs.rq.index.at[p])

\* What Get does with module p apart from the cache after a 404.
GetOfModule(p) ==
    /\ ~Present(hs.rq.index, p) =>
          /\ ~Fetched(p)
          /\ EntriesOf(hs.rq.entries, p) = <<>>
    /\ Present(hs.rq.index, p) =>
          /\ ~Fetched(p) <=> CacheAnswers(p)
          /\ ~Fetched(p) => /\ EntriesOf(hs.rq.entries, p) = hs.rq.cachedBefore[p]
                            /\ hs.cache.entries[p] = hs.rq.cachedBefore[p]
          /\ Fetched(p) => EntriesOf(hs.rq.entries, p) = hs.rq.answer[p].entries
          /\ (Fetched(p) /\ hs.hasCache /\ hs.rq.answer[p].status # 404) =>
                hs.cache.entries[p] = hs.rq.answer[p].entries

\* The statement as written: the entries of every fetched file, none after
\* a 404, replace the cached entries of the module.
C24_FetchedEntriesReplaceCache ==
    GetReturned =>
        \A p \in Modules : Asked(p) =>
            /\ GetOfModule(p)
            /\ (Fetched(p) /\ hs.hasCache) => hs.cache.entries[p] = hs.rq.answer[p].entries

\* C24: for every module asked of Get, with the index that Index returned:
\* a module the index does not list gives no entries and no request; a
\* listed module is answered from the cache, without a request, exactly when
\* the cache holds entries for it and none was modified before the index's
\* time for the module; otherwise its file is fetched, the entries of the
\* file are returned and replace the cached ones, and after a 404 nothing is
\* returned for the module and its cached entries stay as they were.
C24_GetPerModule ==
    GetReturned =>
        \A p \in Modules : Asked(p) =>
            /\ GetOfModule(p)
            /\ (Fetched(p) /\ hs.hasCache /\ hs.rq.answer[p].status = 404) =>
                  hs.cache.entries[p] = hs.rq.cachedBefore[p]

\* A listed module whose cached entries are older than the index and whose
\* file is gone: the request is made, nothing is returned for the module.
C24_Witness ==
    /\ GetReturned
    /\ \E p \in Modules :
          /\ Asked(p)
          /\ Present(hs.rq.index, p)
          /\ Len(hs.rq.cachedBefore[p]) # 0
          /\ Fetched(p)
          /\ hs.rq.answer[p].status = 404
          /\ EntriesOf(hs.rq.entries, p) = <<>>

\* The candidate module paths of the references that pkgsite knows.
KnownCandidates(refs) ==
    { mp \in ModulePaths :
        \E j \in 1..Len(refs) :
            \E i \in 1..Len(candidateModulePaths(refs[j].segs)) :
                candidateModulePaths(refs[j].segs)[i] = mp /\ KnownByPkgsite(mp) }

\* TriageCVE has returned a module for a version 4.0 CVE, and no other call
\* has been made.
TriagedAlone(t) ==
    /\ km.calls = 1
    /\ km.proc[t].pc = "returned"
    /\ km.proc[t].DataVersion = "4.0"
    /\ km.proc[t].err = ""

\* C25: for a version 4.0 CVE of which some reference yields a candidate
\* module path that pkgsite knows, triage returns such a module path, also
\* when an earlier reference holds a standard-library keyword.
C25_KnownModuleBeatsStdlibKeyword ==
    \A t \in Triagers :
        (TriagedAlone(t) /\ KnownCandidates(km.proc[t].refs) # {})
            => km.proc[t].module \in KnownCandidates(km.proc[t].refs)

\* C27: no write of seenModulePath overlaps a read or another write of it.
C27_SeenModulePathExclusive ==
    \A t, o \in Triagers :
        (t # o /\ Writing(t)) => ~(Reading(o) \/ Writing(o))

SummaryReturned == cs.pc = "done"

\* The entries in a top package, and those after entry t that are in the
\* vulnerable package.
TopFrames == { i \in 1..Len(cs.cs) : pkgPath(cs.cs[i]) \in cs.topPkgs }
VulnFramesAfter(t) == { i \in (t + 1)..Len(cs.cs) : pkgPath(cs.cs[i]) = cs.vulnPkg }

\* The summary for top frame t and vuln frame u.
SummaryOf(t, u) ==
    IF u = t + 1 THEN <<funcName(cs.cs[t]), " calls ", funcName(cs.cs[u])>>
    ELSE <<funcName(cs.cs[t]), " calls ", funcName(cs.cs[t + 1]),
           ", which eventually calls ", funcName(cs.cs[u])>>

\* The statement as written: T is the entry of a top package with the
\* smallest index and U the entry of the vulnerable package after T with
\* the largest index.
C26_LowestIndexedTop ==
    SummaryReturned =>
        IF TopFrames = {} THEN cs.ret = NoSummary
        ELSE LET t == CHOOSE i \in TopFrames : \A j \in TopFrames : i <= j
             IN  IF VulnFramesAfter(t) = {} THEN cs.ret = NoSummary
                 ELSE LET u == CHOOSE i \in VulnFramesAfter(t) :
                                   \A j \in VulnFramesAfter(t) : j <= i
                      IN  cs.ret = SummaryOf(t, u)

\* C26: summarizeCallStack takes as top frame T the entry of a top-level
\* package with the largest index and as vuln frame U the entry of the
\* vulnerable package after T with the smallest index; it returns the empty
\* string if either is absent, "T calls U" when U comes right after T and
\* otherwise "T calls M, which eventually calls U" with M the entry right
\* after T, so that every non-empty summary names both T and U.
C26_SummaryOfLowestTop ==
    SummaryReturned =>
        IF TopFrames = {} THEN cs.ret = NoSummary
        ELSE LET t == CHOOSE i \in TopFrames : \A j \in TopFrames : j <= i
             IN  IF VulnFramesAfter(t) = {} THEN cs.ret = NoSummary
                 ELSE LET u == CHOOSE i \in VulnFramesAfter(t) :
                                   \A j \in VulnFramesAfter(t) : i <= j
                      IN  /\ cs.ret = SummaryOf(t, u)
                          /\ cs.ret # NoSummary
                          /\ cs.ret[1] = funcName(cs.cs[t])
                          /\ cs.ret[Len(cs.ret)] = funcName(cs.cs[u])

\* Two entries of a top package and two of the vulnerable package after
\* them, with an entry of another package in between.
C26_Witness ==
    /\ SummaryReturned
    /\ Len(cs.cs) = 4
    /\ Cardinality(TopFrames) = 2
    /\ cs.iTop = 2
    /\ cs.iVuln = 4
    /\ pkgPath(cs.cs[3]) # cs.vulnPkg
    /\ Len(cs.ret) = 5

\* update has returned nil from a pass that recorded no error, and no fault
\* has been injected.
PassSucceeded ==
    /\ up.pc = "idle"
    /\ up.ret = "nil"
    /\ up.ur.Error = ""
    /\ budget.faults = 0

\* C28: after a successful update pass, every record in NeedsIssue has the
\* module the classifier returns for the blob whose hash the record stores,
\* and its cached CVE is the CVE decoded from that blob.
C28_NeedsIssueMatchesBlob ==
    PassSucceeded =>
        \A id \in DOMAIN cveRecords :
            cveRecords[id].TriageState = "NeedsIssue" =>
                /\ cveRecords[id].Module = BlobObjects[cveRecords[id].BlobHash[2]].refModule
                /\ cveRecords[id].CVE = <<cveRecords[id].BlobHash>>

\* update has returned, with or without an error, after it had created the
\* commit update record of the pass.
PassEnded ==
    /\ up.pc = "idle"
    /\ up.ret \in {"nil", "err"}
    /\ up.ur.ID # 0

\* C30: at the end of every update pass, successful or failed, NumAdded is
\* the number of records the pass created, NumModified the number it
\* modified, NumProcessed the number of files in the batches whose
\* transactions committed, and NumAdded + NumModified <= NumProcessed <=
\* NumTotal.
C30_CountersMatchCommitted ==
    PassEnded =>
        /\ up.ur.NumAdded = gh.created
        /\ up.ur.NumModified = gh.modified
        /\ up.ur.NumProcessed = gh.committed
        /\ up.ur.NumAdded + up.ur.NumModified <= up.ur.NumProcessed
        /\ up.ur.NumProcessed <= up.ur.NumTotal

\* The range read of the last batch returned every record of the store whose
\* ID is the ID of a file of the batch, so that the body of the transaction
\* called CreateCVERecord for no ID that had a record.
RangeReadComplete ==
    /\ fx.last.existing \subseteq fx.last.found
    /\ fx.last.creates \cap fx.last.existing = {}
    /\ ~fx.last.err

====
